---- MODULE Spec2Model ----
(***************************************************************************)
(* A model of the quality-filter chain of crawler_project:                 *)
(*   ArabicNormalizationFilter, GopherQualityFilter, C4QualityFilter,      *)
(*   FineWebQualityFilter and the pipeline of process.py.                  *)
(*                                                                         *)
(* A text is a sequence of Unicode code points (Python str).  Every        *)
(* filter is a pure operator on (text, metadata, options) computed the way *)
(* the Python code computes it; the actions apply the operators to         *)
(* documents drawn from bounded sets.                                      *)
(***************************************************************************)
EXTENDS Integers, Sequences, FiniteSets, TLC

VARIABLES
    pc,       \* control position of the component or of the pipeline
    cfg,      \* the options the filter under study was constructed with
    doc,      \* the document being processed: [id, text, metadata]
    verdict,  \* the verdict of the last filter() call: [ok, reason]
    stats,    \* the stat_update() calls of the filter, in order
    hist,     \* one record per filter() call, in order
    input,    \* the documents the reader has still to deliver
    sinks,    \* per stage, the documents written to its exclusion writer
    output    \* the documents written by the final JsonlWriter

vars == <<pc, cfg, doc, verdict, stats, hist, input, sinks, output>>

(***************************************************************************)
(* Bounds of the model.                                                    *)
(***************************************************************************)
MaxLen == 2      \* longest enumerated Normalizer text, in code points
MaxRuns == 2     \* filter() calls on one document in the Normalizer runs
MaxLines == 2    \* most lines of an enumerated C4 / FineWeb document
MaxWords == 2    \* most tokens of an enumerated Gopher document
MaxDocs == 2     \* most documents the reader delivers to the pipeline

(***************************************************************************)
(* Python str primitives on sequences of code points.                      *)
(***************************************************************************)

\* str.isspace() of one character: the code points str.strip() and
\* str.split() treat as whitespace, which are also those of the regex \s.
IsSpace(c) ==
    \/ c \in 9..13
    \/ c \in 28..32
    \/ c \in {133, 160, 5760, 8232, 8233, 8239, 8287, 12288}
    \/ c \in 8192..8202

\* The line boundaries of str.splitlines().
IsLineBreak(c) == c \in {10, 11, 12, 13, 28, 29, 30, 133, 8232, 8233}

\* Unicode decimal digits (regex \d) among the scripts the model uses.
IsDigit(c) == c \in 48..57 \/ c \in 1632..1641 \/ c \in 1776..1785

Drop(s, n) == SubSeq(s, n + 1, Len(s))

Take(s, n) == SubSeq(s, 1, n)

\* The positions of a string, in order.
Indices(s) == [i \in 1..Len(s) |-> i]

\* s.lstrip(): from the first character that is not whitespace.
lstrip(s) ==
    LET keep == SelectSeq(Indices(s), LAMBDA i : ~IsSpace(s[i]))
    IN  IF keep = <<>> THEN <<>> ELSE SubSeq(s, keep[1], Len(s))

\* s.rstrip(): up to the last character that is not whitespace.
rstrip(s) ==
    LET keep == SelectSeq(Indices(s), LAMBDA i : ~IsSpace(s[i]))
    IN  IF keep = <<>> THEN <<>> ELSE SubSeq(s, 1, keep[Len(keep)])

\* s.strip()
strip(s) == lstrip(rstrip(s))

startswith(s, p) == Len(p) <= Len(s) /\ Take(s, Len(p)) = p

endswith(s, p) == Len(p) <= Len(s) /\ Drop(s, Len(s) - Len(p)) = p

\* s.endswith(tuple): any of the suffixes.
endswithAny(s, ps) == \E p \in ps : endswith(s, p)

\* `sub in s`
Contains(s, sub) ==
    \E i \in 0..(Len(s) - Len(sub)) : \A j \in 1..Len(sub) : s[i + j] = sub[j]

\* s.count(sub) for a non-empty sub: non-overlapping occurrences, scanning
\* from the left.
RECURSIVE countFrom(_, _, _)
countFrom(s, sub, from) ==
    LET hits == SelectSeq(Indices(s),
                          LAMBDA i : /\ i >= from
                                     /\ i + Len(sub) - 1 <= Len(s)
                                     /\ SubSeq(s, i, i + Len(sub) - 1) = sub)
    IN  IF hits = <<>> THEN 0 ELSE 1 + countFrom(s, sub, hits[1] + Len(sub))

count(s, sub) == countFrom(s, sub, 1)

\* s.lower() on the letters the model uses (ASCII; Arabic has no case).
LowerChar(c) == IF c \in 65..90 THEN c + 32 ELSE c

lower(s) == [i \in 1..Len(s) |-> LowerChar(s[i])]

\* sep.join(parts)
RECURSIVE join(_, _)
join(sep, parts) ==
    IF parts = <<>> THEN <<>>
    ELSE IF Len(parts) = 1 THEN parts[1]
    ELSE parts[1] \o sep \o join(sep, Tail(parts))

\* The pieces of s that begin at the positions starts and end at the
\* positions ends.
Pieces(s, starts, ends) == [k \in 1..Len(starts) |-> SubSeq(s, starts[k], ends[k])]

\* s.split(): the maximal runs of non-whitespace characters.
split(s) ==
    Pieces(s,
           SelectSeq(Indices(s),
                     LAMBDA i : ~IsSpace(s[i]) /\ (i = 1 \/ IsSpace(s[i - 1]))),
           SelectSeq(Indices(s),
                     LAMBDA i : ~IsSpace(s[i]) /\ (i = Len(s) \/ IsSpace(s[i + 1]))))

\* s.split("\n"): every piece between newlines, empty ones included.
splitNL(s) ==
    LET nl == SelectSeq(Indices(s), LAMBDA i : s[i] = 10)
    IN  [k \in 1..(Len(nl) + 1) |->
            SubSeq(s, IF k = 1 THEN 1 ELSE nl[k - 1] + 1,
                      IF k > Len(nl) THEN Len(s) ELSE nl[k] - 1)]

\* s.splitlines(): pieces between line boundaries ("\r\n" is one boundary);
\* no empty last piece after a final boundary.
splitlines(s) ==
    LET ends == SelectSeq(Indices(s),
                          LAMBDA i : /\ IsLineBreak(s[i])
                                     /\ ~(s[i] = 13 /\ i < Len(s) /\ s[i + 1] = 10))
        first(e) == IF s[e] = 10 /\ e > 1 /\ s[e - 1] = 13 THEN e - 1 ELSE e
        n == Len(ends)
        head == [k \in 1..n |->
                    SubSeq(s, IF k = 1 THEN 1 ELSE ends[k - 1] + 1, first(ends[k]) - 1)]
        last == IF n = 0 THEN s ELSE SubSeq(s, ends[n] + 1, Len(s))
    IN  IF last = <<>> THEN head ELSE Append(head, last)

\* re.sub(r'[class]+', ' ', s): every maximal run of characters of the class
\* becomes one space.
CollapseRuns(s, InClass(_)) ==
    LET keep == SelectSeq(Indices(s),
                          LAMBDA i : ~InClass(s[i]) \/ i = 1 \/ ~InClass(s[i - 1]))
    IN  [k \in 1..Len(keep) |-> IF InClass(s[keep[k]]) THEN 32 ELSE s[keep[k]]]

\* The finite sequences of length at most n over alphabet A.
SeqsUpTo(A, n) == UNION {[1..k -> A] : k \in 0..n}

\* A metadata mapping with key k set to v.
SetKey(m, k, v) == (k :> v) @@ m

\* How often stat_update(name) was called.
RECURSIVE StatCount(_, _)
StatCount(log, name) ==
    IF log = <<>> THEN 0
    ELSE (IF Head(log) = name THEN 1 ELSE 0) + StatCount(Tail(log), name)

Accept == [ok |-> TRUE, reason |-> "accept"]

Reject(r) == [ok |-> FALSE, reason |-> r]

NoVerdict == [ok |-> FALSE, reason |-> "not_run"]

NoDoc == [id |-> 0, text |-> <<>>, metadata |-> <<>>]

\* The record of one filter() call: the stage, the verdict, the text before
\* and the document after, and (C4) what became of every line it looked at.
HistEntry(d, stage, v, d2, lines) ==
    [id |-> d.id, stage |-> stage, ok |-> v.ok, reason |-> v.reason,
     before |-> d.text, text |-> d2.text, metadata |-> d2.metadata, lines |-> lines]

NoSinks == [k \in {"norm", "gopher_rep", "gopher_qual", "c4"} |-> <<>>]

(***************************************************************************)
(* ArabicNormalizationFilter.                                              *)
(***************************************************************************)

\* diacritics_regex: [\u064B-\u065F\u0670]
Diacritics == 1611..1631 \cup {1648}

\* alef_variations: [\u0622\u0623\u0625\u0671]
AlefVariations == {1570, 1571, 1573, 1649}

\* zero_width_regex: [\u200B-\u200D\uFEFF\u200E\u200F\u202A-\u202E\u2066-\u2069]
ZeroWidth == 8203..8207 \cup {65279} \cup 8234..8238 \cup 8294..8297

\* tatweel_regex: \u0640
Tatweel == {1600}

\* The Eastern Arabic digits U+0660..U+0669.
EasternDigits == 1632..1641

\* The first argument of str.maketrans as the source file holds it: twenty
\* code points (U+00D9 U+00A0, U+00D9 U+00A1, ...), the UTF-8 bytes of the ten
\* Eastern digits each read as one Latin-1 character.
MaketransFrom ==
    <<217, 160, 217, 161, 217, 162, 217, 163, 217, 164,
      217, 165, 217, 166, 217, 167, 217, 168, 217, 169>>

\* The second argument: '0123456789'.
MaketransTo == <<48, 49, 50, 51, 52, 53, 54, 55, 56, 57>>

\* str.maketrans(x, y): ValueError unless the two strings have equal length,
\* else the table x[i] -> y[i] (a repeated key keeps its last value).
maketrans(x, y) ==
    IF Len(x) # Len(y)
    THEN [error |-> TRUE, table |-> <<>>]
    ELSE [error |-> FALSE,
          table |-> [c \in {x[i] : i \in 1..Len(x)} |->
                       y[CHOOSE i \in 1..Len(x) :
                           x[i] = c /\ \A j \in (i + 1)..Len(x) : x[j] # c]]]

\* str.translate(table)
translate(s, table) ==
    [i \in 1..Len(s) |-> IF s[i] \in DOMAIN table THEN table[s[i]] ELSE s[i]]

\* __init__: the patterns are compiled per enabled option; with
\* normalize_numbers the translation table is built, which may raise.
NormInit(o) ==
    IF o.normalize_numbers
    THEN maketrans(MaketransFrom, MaketransTo)
    ELSE [error |-> FALSE, table |-> <<>>]

\* Step 1: diacritics_regex.sub('', text)
RemoveDiacritics(text) == SelectSeq(text, LAMBDA c : c \notin Diacritics)

\* Step 2: alef_variations.sub('\u0627', text)
NormalizeAlef(text) ==
    [i \in 1..Len(text) |-> IF text[i] \in AlefVariations THEN 1575 ELSE text[i]]

\* Step 3: zero_width_regex.sub('', text)
RemoveZeroWidth(text) == SelectSeq(text, LAMBDA c : c \notin ZeroWidth)

\* Step 4: tatweel_regex.sub('', text)
RemoveTatweel(text) == SelectSeq(text, LAMBDA c : c \notin Tatweel)

\* Step 5: text.translate(self.arabic_to_western)
NormalizeNumbers(text, o) == translate(text, NormInit(o).table)

IsSpaceOrTab(c) == c \in {32, 9}

\* Step 6: re.sub(r'[ \t]+', ' ', text) or re.sub(r'\s+', ' ', text), then strip()
NormalizeWhitespace(text, preserve_newlines) ==
    strip(IF preserve_newlines
          THEN CollapseRuns(text, IsSpaceOrTab)
          ELSE CollapseRuns(text, IsSpace))

\* The six steps of filter(), in the order of the code.
NormText(text, o) ==
    LET t1 == IF o.remove_diacritics THEN RemoveDiacritics(text) ELSE text
        t2 == IF o.normalize_arabic_chars THEN NormalizeAlef(t1) ELSE t1
        t3 == IF o.remove_zero_width THEN RemoveZeroWidth(t2) ELSE t2
        t4 == IF o.remove_tatweel THEN RemoveTatweel(t3) ELSE t3
        t5 == IF o.normalize_numbers THEN NormalizeNumbers(t4, o) ELSE t4
    IN  IF o.normalize_whitespace
        THEN NormalizeWhitespace(t5, o.preserve_newlines)
        ELSE t5

\* A variant that records the text on every call.
NormRecordOriginal_Overwrite(metadata, text) ==
    SetKey(metadata, "original_text_normalized", text)

\* if 'original_text_normalized' not in doc.metadata: doc.metadata[...] = text
NormRecordOriginal(metadata, text) ==
    IF "original_text_normalized" \in DOMAIN metadata
    THEN metadata
    ELSE SetKey(metadata, "original_text_normalized", text)

\* A variant that tests only for the empty string.
NormIsEmpty_NoStrip(text) == text = <<>>

\* if not doc.text or len(doc.text.strip()) == 0
NormIsEmpty(text) == text = <<>> \/ Len(strip(text)) = 0

\* ArabicNormalizationFilter.filter(doc): the document as it leaves the call,
\* the verdict, the stat_update() calls and the documents it wrote itself to
\* the exclusion writer.
NormFilter(d, o) ==
    LET d2 == [d EXCEPT !.text = NormText(d.text, o),
                        !.metadata = NormRecordOriginal(d.metadata, d.text)]
        empty == NormIsEmpty(d2.text)
    IN  [doc |-> d2,
         verdict |-> IF empty THEN Reject("empty_after_normalization") ELSE Accept,
         stats |-> IF empty THEN <<"empty_after_normalization">> ELSE <<>>,
         written |-> IF empty /\ o.exclusion_writer THEN <<d2>> ELSE <<>>]

\* The constructor options: every combination of the boolean switches, with
\* or without an exclusion writer.
NormOptions ==
    [exclusion_writer : BOOLEAN, remove_diacritics : BOOLEAN,
     normalize_whitespace : BOOLEAN, normalize_arabic_chars : BOOLEAN,
     remove_zero_width : BOOLEAN, remove_tatweel : BOOLEAN,
     normalize_numbers : BOOLEAN, preserve_newlines : BOOLEAN]

\* The defaults of __init__, with the exclusion writer process.py passes.
NormDefaults ==
    [exclusion_writer |-> TRUE, remove_diacritics |-> TRUE,
     normalize_whitespace |-> TRUE, normalize_arabic_chars |-> TRUE,
     remove_zero_width |-> TRUE, remove_tatweel |-> TRUE,
     normalize_numbers |-> FALSE, preserve_newlines |-> TRUE]

\* One character of every class a step tells apart: space, newline, a
\* diacritic (fatha), an alef variant, a zero-width space, tatweel, an
\* Eastern digit, a plain letter (beh).
NormAlphabet == {32, 10, 1614, 1571, 8203, 1600, 1633, 1576}

\* Longer texts in which one step's removal puts whitespace next to
\* whitespace, or empties the text.
NormScenarioTexts ==
    { <<1576, 32, 1614, 32, 1576>>,        \* beh, space, fatha, space, beh
      <<32, 1614, 10, 1614, 32, 8203>>,    \* only diacritics, zero-width marks and whitespace
      <<1576, 32, 10, 32, 1600, 10, 1576>>,
      <<1614, 1614, 32, 9, 1614>>,
      <<1633, 1576, 9, 9, 1571, 1600>> }

NormTexts == SeqsUpTo(NormAlphabet, MaxLen) \cup NormScenarioTexts

NormInitState ==
    /\ pc = "norm_new"
    /\ cfg \in NormOptions
    /\ \E t \in NormTexts : doc = [id |-> 1, text |-> t, metadata |-> <<>>]
    /\ input = <<doc>>
    /\ verdict = NoVerdict
    /\ stats = <<>>
    /\ hist = <<>>
    /\ sinks = NoSinks
    /\ output = <<>>

\* ArabicNormalizationFilter(...): construction succeeds or raises ValueError.
NormConstruct ==
    /\ pc = "norm_new"
    /\ pc' = IF NormInit(cfg).error THEN "norm_ValueError" ELSE "norm_ready"
    /\ UNCHANGED <<cfg, doc, verdict, stats, hist, input, sinks, output>>

\* One call of filter(doc) on the constructed filter.
NormRun ==
    /\ pc = "norm_ready"
    /\ Len(hist) < MaxRuns
    /\ \E r \in {NormFilter(doc, cfg)} :
        /\ doc' = r.doc
        /\ verdict' = r.verdict
        /\ stats' = stats \o r.stats
        /\ hist' = Append(hist, HistEntry(doc, "norm", r.verdict, r.doc, <<>>))
        /\ sinks' = [sinks EXCEPT !["norm"] = @ \o r.written]
    /\ UNCHANGED <<pc, cfg, input, output>>

NormNext == NormConstruct \/ NormRun

SpecNorm == NormInitState /\ [][NormNext]_vars

(***************************************************************************)
(* Claims about the Normalizer, checked under SpecNorm.                    *)
(***************************************************************************)

OnlyWhitespace(text) == \A i \in 1..Len(text) : IsSpace(text[i])

\* C3: running filter() again on the same document leaves doc.text equal to
\* the text after the first run, returns the same verdict, and the metadata
\* key 'original_text_normalized' still holds the text the document had
\* before the first run.
C3_NormalizerIdempotent ==
    \A i \in 1..Len(hist) :
        /\ hist[i].text = hist[1].text
        /\ hist[i].ok = hist[1].ok
        /\ hist[i].reason = hist[1].reason
        /\ "original_text_normalized" \in DOMAIN hist[i].metadata
        /\ hist[i].metadata["original_text_normalized"] = input[1].text

\* A second run on a document whose text the first run changed and accepted.
C3_Witness ==
    /\ Len(hist) >= 2
    /\ hist[1].text # input[1].text
    /\ hist[1].text # <<>>
    /\ hist[2].ok

\* C4 as stated: filter() rejects with "empty_after_normalization" exactly
\* when the text it leaves in the document is empty or holds only whitespace,
\* and every text of diacritics and whitespace alone is rejected, whatever
\* the options are.
C4_DiacriticsAlwaysRejected ==
    \A i \in 1..Len(hist) :
        /\ hist[i].ok <=> ~OnlyWhitespace(hist[i].text)
        /\ (\A j \in 1..Len(hist[i].before) :
                hist[i].before[j] \in Diacritics \/ IsSpace(hist[i].before[j]))
               => (~hist[i].ok /\ hist[i].reason = "empty_after_normalization")

\* C4 amended: filter() rejects with "empty_after_normalization" exactly when
\* the text it leaves in the document is empty or holds only whitespace,
\* counts that once per rejection, and otherwise accepts without counting;
\* a text of diacritics and whitespace alone is rejected when the diacritics
\* step is enabled.
C4_EmptyAfterNormalization ==
    /\ \A i \in 1..Len(hist) :
        /\ hist[i].ok <=> ~OnlyWhitespace(hist[i].text)
        /\ hist[i].reason = IF hist[i].ok THEN "accept" ELSE "empty_after_normalization"
        /\ (/\ cfg.remove_diacritics
            /\ \A j \in 1..Len(hist[i].before) :
                   hist[i].before[j] \in Diacritics \/ IsSpace(hist[i].before[j]))
           => ~hist[i].ok
    /\ StatCount(stats, "empty_after_normalization")
           = Cardinality({i \in 1..Len(hist) : ~hist[i].ok})
    /\ Len(stats) = StatCount(stats, "empty_after_normalization")

\* A text of diacritics and whitespace was rejected and counted once.
C4_Witness ==
    /\ Len(hist) = 1
    /\ \E j \in 1..Len(hist[1].before) : hist[1].before[j] \in Diacritics
    /\ \E j \in 1..Len(hist[1].before) : IsSpace(hist[1].before[j])
    /\ \A j \in 1..Len(hist[1].before) :
           hist[1].before[j] \in Diacritics \/ IsSpace(hist[1].before[j])
    /\ ~hist[1].ok
    /\ stats = <<"empty_after_normalization">>

\* The digits of a text, in order, each Eastern Arabic digit read as its
\* Western digit.
WesternDigitsOf(text) ==
    LET ds == SelectSeq(text, LAMBDA c : c \in EasternDigits \/ c \in 48..57)
    IN  [i \in 1..Len(ds) |-> IF ds[i] \in EasternDigits THEN ds[i] - 1632 + 48 ELSE ds[i]]

DigitsOf(text) == SelectSeq(text, LAMBDA c : c \in EasternDigits \/ c \in 48..57)

\* C5: with normalize_numbers enabled the Normalizer can be constructed, and
\* filter() leaves every Eastern Arabic digit U+0660..U+0669 replaced by its
\* Western digit; with the option disabled the digits stay as they were.
C5_DigitsNormalized ==
    /\ cfg.normalize_numbers => pc # "norm_ValueError"
    /\ \A i \in 1..Len(hist) :
           DigitsOf(hist[i].text)
               = IF cfg.normalize_numbers
                 THEN WesternDigitsOf(hist[i].before)
                 ELSE DigitsOf(hist[i].before)

(***************************************************************************)
(* GopherQualityFilter (helpers/filters/GopherQualityFilter_ours.py).      *)
(***************************************************************************)

\* A threshold option: None, or a number n/d (an int has d = 1).
None == [some |-> FALSE, n |-> 0, d |-> 1]

Num(n, d) == [some |-> TRUE, n |-> n, d |-> d]

\* Python truth value of an option: None and 0 are false.
Truthy(t) == t.some /\ t.n # 0

\* a/b < t, a/b > t for b > 0 (exact: the filters compare small fractions)
RatioBelow(a, b, t) == a * t.d < t.n * b

RatioAbove(a, b, t) == a * t.d > t.n * b

\* PUNCTUATION_SET of datatrove.utils.text, on the scripts the model uses:
\* the ASCII punctuation, the ellipsis and bullet glyphs, Arabic punctuation.
IsPunct(c) ==
    \/ c \in 33..47 \/ c \in 58..64 \/ c \in 91..96 \/ c \in 123..126
    \/ c \in {8230, 8226, 1548, 1563, 1567, 1748}

\* str.isalpha() of one character, on the scripts the model uses.
IsAlpha(c) ==
    \/ c \in 65..90 \/ c \in 97..122
    \/ c \in 1568..1610 \/ c \in 1649..1747

\* _is_arabic_char
is_arabic_char(c) ==
    \/ (1536 <= c /\ c <= 1791)
    \/ (1872 <= c /\ c <= 1919)
    \/ (2208 <= c /\ c <= 2303)

\* split_into_words(text, language), the word segmenter of datatrove: the
\* whitespace-delimited chunks, each cut into its maximal runs of punctuation
\* and of other characters.
split_into_words(text) ==
    Pieces(text,
           SelectSeq(Indices(text),
                     LAMBDA i : /\ ~IsSpace(text[i])
                                /\ \/ i = 1
                                   \/ IsSpace(text[i - 1])
                                   \/ IsPunct(text[i - 1]) # IsPunct(text[i])),
           SelectSeq(Indices(text),
                     LAMBDA i : /\ ~IsSpace(text[i])
                                /\ \/ i = Len(text)
                                   \/ IsSpace(text[i + 1])
                                   \/ IsPunct(text[i + 1]) # IsPunct(text[i])))

\* [w for w in words if any(ch not in PUNCTUATION_SET for ch in w)]
non_symbol_words(words) ==
    SelectSeq(words, LAMBDA w : \E i \in 1..Len(w) : ~IsPunct(w[i]))

\* sum(len(w) for w in words)
RECURSIVE SumLen(_)
SumLen(words) == IF words = <<>> THEN 0 ELSE Len(Head(words)) + SumLen(Tail(words))

\* How many elements of a sequence satisfy P.
CountIf(seq, P(_)) == Len(SelectSeq(seq, P))

\* A variant whose length test also rejects a document of exactly
\* min_doc_words words.
GopherShortDoc_Inclusive(n, o) ==
    Truthy(o.min_doc_words) /\ ~RatioAbove(n, 1, o.min_doc_words)

\* if self.min_doc_words and n_non_symbol_words < self.min_doc_words
GopherShortDoc(n, o) == Truthy(o.min_doc_words) /\ RatioBelow(n, 1, o.min_doc_words)

\* if self.max_doc_words and n_non_symbol_words > self.max_doc_words
GopherLongDoc(n, o) == Truthy(o.max_doc_words) /\ RatioAbove(n, 1, o.max_doc_words)

\* if n_non_symbol_words > 0: avg_n_words = np.mean(...);
\*     if self.min_avg_word_length and avg_n_words < self.min_avg_word_length
GopherBelowAvg(total, n, o) ==
    n > 0 /\ Truthy(o.min_avg_word_length) /\ RatioBelow(total, n, o.min_avg_word_length)

\*     if self.max_avg_word_length and avg_n_words > self.max_avg_word_length
GopherAboveAvg(total, n, o) ==
    n > 0 /\ Truthy(o.max_avg_word_length) /\ RatioAbove(total, n, o.max_avg_word_length)

\* if self.max_symbol_word_ratio and n_words > 0:
\*     hash_ratio = text.count("#") / n_words; if hash_ratio > ...
GopherTooManyHashes(text, n_words, o) ==
    /\ Truthy(o.max_symbol_word_ratio) /\ n_words > 0
    /\ RatioAbove(count(text, <<35>>), n_words, o.max_symbol_word_ratio)

\*     ellipsis_ratio = (text.count("...") + text.count("\u2026")) / n_words
GopherTooManyEllipsis(text, n_words, o) ==
    /\ Truthy(o.max_symbol_word_ratio) /\ n_words > 0
    /\ RatioAbove(count(text, <<46, 46, 46>>) + count(text, <<8230>>), n_words,
                  o.max_symbol_word_ratio)

\* s.lstrip().startswith("\u2022") or s.lstrip().startswith("-")
IsBulletLine(s) == startswith(lstrip(s), <<8226>>) \/ startswith(lstrip(s), <<45>>)

\* s.rstrip().endswith("...") or s.rstrip().endswith("\u2026")
IsEllipsisLine(s) == endswith(rstrip(s), <<46, 46, 46>>) \/ endswith(rstrip(s), <<8230>>)

\* if len(lines) > 0: if self.max_bullet_lines_ratio and sum(...) / len(lines) > ...
GopherTooManyBullets(lines, o) ==
    /\ Len(lines) > 0 /\ Truthy(o.max_bullet_lines_ratio)
    /\ RatioAbove(CountIf(lines, IsBulletLine), Len(lines), o.max_bullet_lines_ratio)

\*     if self.max_ellipsis_lines_ratio and sum(...) / len(lines) > ...
GopherTooManyEndEllipsis(lines, o) ==
    /\ Len(lines) > 0 /\ Truthy(o.max_ellipsis_lines_ratio)
    /\ RatioAbove(CountIf(lines, IsEllipsisLine), Len(lines), o.max_ellipsis_lines_ratio)

\* any(c.isalpha() or self._is_arabic_char(c) for c in w)
IsAlphaWord(w) == \E i \in 1..Len(w) : IsAlpha(w[i]) \/ is_arabic_char(w[i])

\* non_alpha_ratio = (n_words - alpha_words_count) / n_words if n_words > 0 else 0
\* if self.max_non_alpha_words_ratio and non_alpha_ratio > ...
GopherTooManyNonAlpha(words, o) ==
    /\ Truthy(o.max_non_alpha_words_ratio) /\ Len(words) > 0
    /\ RatioAbove(Len(words) - CountIf(words, IsAlphaWord), Len(words),
                  o.max_non_alpha_words_ratio)

\* A variant that tests the ellipsis ratio before the hash ratio.
GopherFilter_EllipsisFirst(text, o) ==
    LET words == split_into_words(text)
        n_words == Len(words)
        nsw == non_symbol_words(words)
        n == Len(nsw)
        lines == splitlines(text)
    IN  IF n_words = 0 THEN Reject("gopher_no_words")
        ELSE IF GopherShortDoc(n, o) THEN Reject("gopher_short_doc")
        ELSE IF GopherLongDoc(n, o) THEN Reject("gopher_long_doc")
        ELSE IF GopherBelowAvg(SumLen(nsw), n, o) THEN Reject("gopher_below_avg_threshold")
        ELSE IF GopherAboveAvg(SumLen(nsw), n, o) THEN Reject("gopher_above_avg_threshold")
        ELSE IF GopherTooManyEllipsis(text, n_words, o) THEN Reject("gopher_too_many_ellipsis")
        ELSE IF GopherTooManyHashes(text, n_words, o) THEN Reject("gopher_too_many_hashes")
        ELSE IF GopherTooManyBullets(lines, o) THEN Reject("gopher_too_many_bullets")
        ELSE IF GopherTooManyEndEllipsis(lines, o) THEN Reject("gopher_too_many_end_ellipsis")
        ELSE IF GopherTooManyNonAlpha(words, o) THEN Reject("gopher_too_many_non_alpha")
        ELSE Accept

\* GopherQualityFilter.filter(doc): the verdict; the document is only read.
GopherFilter(text, o) ==
    LET words == split_into_words(text)
        n_words == Len(words)
        nsw == non_symbol_words(words)
        n == Len(nsw)
        lines == splitlines(text)
    IN  IF n_words = 0 THEN Reject("gopher_no_words")
        ELSE IF GopherShortDoc(n, o) THEN Reject("gopher_short_doc")
        ELSE IF GopherLongDoc(n, o) THEN Reject("gopher_long_doc")
        ELSE IF GopherBelowAvg(SumLen(nsw), n, o) THEN Reject("gopher_below_avg_threshold")
        ELSE IF GopherAboveAvg(SumLen(nsw), n, o) THEN Reject("gopher_above_avg_threshold")
        ELSE IF GopherTooManyHashes(text, n_words, o) THEN Reject("gopher_too_many_hashes")
        ELSE IF GopherTooManyEllipsis(text, n_words, o) THEN Reject("gopher_too_many_ellipsis")
        ELSE IF GopherTooManyBullets(lines, o) THEN Reject("gopher_too_many_bullets")
        ELSE IF GopherTooManyEndEllipsis(lines, o) THEN Reject("gopher_too_many_end_ellipsis")
        ELSE IF GopherTooManyNonAlpha(words, o) THEN Reject("gopher_too_many_non_alpha")
        ELSE Accept

\* The defaults of __init__.
GopherDefaults ==
    [min_doc_words |-> Num(15, 1), max_doc_words |-> None,
     min_avg_word_length |-> Num(2, 1), max_avg_word_length |-> Num(18, 1),
     max_symbol_word_ratio |-> Num(2, 10), max_bullet_lines_ratio |-> Num(9, 10),
     max_ellipsis_lines_ratio |-> Num(3, 10), max_non_alpha_words_ratio |-> Num(8, 10)]

\* Every choice of enabled and disabled checks, with thresholds that short
\* documents can fall on either side of; the defaults; and the defaults and
\* the all-disabled options with other minimum lengths.
GopherOptions ==
    [min_doc_words : {None, Num(2, 1)}, max_doc_words : {None, Num(2, 1)},
     min_avg_word_length : {None, Num(2, 1)}, max_avg_word_length : {None, Num(3, 1)},
     max_symbol_word_ratio : {None, Num(2, 10)}, max_bullet_lines_ratio : {None, Num(9, 10)},
     max_ellipsis_lines_ratio : {None, Num(3, 10)},
     max_non_alpha_words_ratio : {None, Num(8, 10)}]
    \cup {[GopherDefaults EXCEPT !.min_doc_words = m] :
             m \in {None, Num(0, 1), Num(1, 1), Num(3, 1), Num(4, 1), Num(15, 1), Num(16, 1)}}
    \cup {[min_doc_words |-> m, max_doc_words |-> None,
           min_avg_word_length |-> None, max_avg_word_length |-> None,
           max_symbol_word_ratio |-> None, max_bullet_lines_ratio |-> None,
           max_ellipsis_lines_ratio |-> None, max_non_alpha_words_ratio |-> None] :
             m \in {Num(0, 1), Num(1, 1), Num(3, 1), Num(4, 1), Num(15, 1)}}

\* The tokens of the enumerated documents: "a", "abcd", "1", "#", "...", "-".
GopherTokens == {<<97>>, <<97, 98, 99, 100>>, <<49>>, <<35>>, <<46, 46, 46>>, <<45>>}

\* Space and newline.
GopherSeparators == {<<32>>, <<10>>}

\* The documents of exactly k tokens, each two joined by a separator.
RECURSIVE GopherTextsOf(_)
GopherTextsOf(k) ==
    IF k = 0 THEN {<<>>}
    ELSE IF k = 1 THEN GopherTokens
    ELSE {t \o sep \o w : t \in GopherTextsOf(k - 1), sep \in GopherSeparators,
                          w \in GopherTokens}

\* k copies of the word "ab", separated by spaces.
RECURSIVE WordsAb(_)
WordsAb(k) == IF k = 0 THEN <<>> ELSE IF k = 1 THEN <<97, 98>> ELSE <<97, 98, 32>> \o WordsAb(k - 1)

\* "a b c" (Scenario A), documents of 14, 15 and 16 words, a document of
\* symbols only, Arabic words, and a word next to the glyph forms of the
\* ellipsis and the bullet.
GopherScenarioTexts ==
    { <<97, 32, 98, 32, 99>>,
      WordsAb(14), WordsAb(15), WordsAb(16),
      WordsAb(14) \o <<32, 35>>,
      <<35, 32, 46, 46, 46, 32, 45>>,
      <<1576, 1575, 32, 1576, 1575, 32, 1576, 1575>>,
      <<8226, 32, 97, 98, 10, 97, 98, 8230>>,
      <<32, 10>> }

GopherTexts ==
    UNION {GopherTextsOf(k) : k \in 0..MaxWords} \cup GopherScenarioTexts

GopherInitState ==
    /\ pc = "gopher_ready"
    /\ cfg \in GopherOptions
    /\ \E t \in GopherTexts : doc = [id |-> 1, text |-> t, metadata |-> <<>>]
    /\ input = <<doc>>
    /\ verdict = NoVerdict
    /\ stats = <<>>
    /\ hist = <<>>
    /\ sinks = NoSinks
    /\ output = <<>>

\* One call of GopherQualityFilter.filter(doc).
GopherRun ==
    /\ pc = "gopher_ready"
    /\ pc' = "gopher_done"
    /\ verdict' = GopherFilter(doc.text, cfg)
    /\ hist' = Append(hist, HistEntry(doc, "gopher_qual", verdict', doc, <<>>))
    /\ UNCHANGED <<cfg, doc, stats, input, sinks, output>>

GopherNext == GopherRun

SpecGopher == GopherInitState /\ [][GopherNext]_vars

(***************************************************************************)
(* Claims about the Gopher filter, checked under SpecGopher.               *)
(***************************************************************************)

\* The number of words of a text that are not made of punctuation alone.
NonSymbolWordCount(text) == Len(non_symbol_words(split_into_words(text)))

\* C6: with min_doc_words = m >= 1 enabled, a document of exactly m
\* non-punctuation-only words is never rejected with "gopher_short_doc", a
\* document of m - 1 such words and at least one token is rejected with
\* "gopher_short_doc", and "a b c" under the defaults (m = 15) is rejected
\* with "gopher_short_doc".
C6_GopherLengthBoundary ==
    \A i \in 1..Len(hist) :
        hist[i].stage = "gopher_qual" =>
            LET m == cfg.min_doc_words
                n == NonSymbolWordCount(hist[i].before)
            IN  /\ (m.some /\ m.d = 1 /\ m.n >= 1 /\ n = m.n)
                       => hist[i].reason # "gopher_short_doc"
                /\ (/\ m.some /\ m.d = 1 /\ m.n >= 1 /\ n = m.n - 1
                    /\ split_into_words(hist[i].before) # <<>>)
                       => hist[i].reason = "gopher_short_doc"
                /\ (hist[i].before = <<97, 32, 98, 32, 99>> /\ cfg = GopherDefaults)
                       => hist[i].reason = "gopher_short_doc"

\* "a b c" was run under the defaults and rejected as a short document.
C6_Witness ==
    /\ Len(hist) = 1
    /\ hist[1].stage = "gopher_qual"
    /\ cfg = GopherDefaults
    /\ hist[1].before = <<97, 32, 98, 32, 99>>
    /\ hist[1].reason = "gopher_short_doc"

(***************************************************************************)
(* C4QualityFilter.                                                        *)
(***************************************************************************)

\* END_PUNCTUATION = (".", "\u061F", "!", ":", "?", "'", '"')
END_PUNCTUATION == {<<46>>, <<1567>>, <<33>>, <<58>>, <<63>>, <<39>>, <<34>>}

\* ELLIPSIS = "..."
ELLIPSIS == <<46, 46, 46>>

POLICY_SUBSTRINGS ==
    { <<116, 101, 114, 109, 115, 32, 111, 102, 32, 117, 115, 101>>,  \* "terms of use"
      <<112, 114, 105, 118, 97, 99, 121, 32, 112, 111, 108, 105, 99, 121>>,  \* "privacy policy"
      <<99, 111, 111, 107, 105, 101, 32, 112, 111, 108, 105, 99, 121>>,  \* "cookie policy"
      <<117, 115, 101, 115, 32, 99, 111, 111, 107, 105, 101, 115>>,  \* "uses cookies"
      <<117, 115, 101, 32, 111, 102, 32, 99, 111, 111, 107, 105, 101, 115>>,  \* "use of cookies"
      <<117, 115, 101, 32, 99, 111, 111, 107, 105, 101, 115>>,  \* "use cookies"
      <<1588, 1585, 1608, 1591, 32, 1575, 1604, 1575, 1587, 1578, 1582, 1583, 1575, 1605>>,  \* "\u0634\u0631\u0648\u0637 \u0627\u0644\u0627\u0633\u062A\u062E\u062F\u0627\u0645"
      <<1588, 1585, 1608, 1591, 32, 1575, 1604, 1582, 1583, 1605, 1577>>,  \* "\u0634\u0631\u0648\u0637 \u0627\u0644\u062E\u062F\u0645\u0629"
      <<1587, 1610, 1575, 1587, 1577, 32, 1575, 1604, 1582, 1589, 1608, 1589, 1610, 1577>>,  \* "\u0633\u064A\u0627\u0633\u0629 \u0627\u0644\u062E\u0635\u0648\u0635\u064A\u0629"
      <<1587, 1610, 1575, 1587, 1577, 32, 1581, 1605, 1575, 1610, 1577, 32, 1575, 1604, 1582, 1589, 1608, 1589, 1610, 1577>>,  \* "\u0633\u064A\u0627\u0633\u0629 \u062D\u0645\u0627\u064A\u0629 \u0627\u0644\u062E\u0635\u0648\u0635\u064A\u0629"
      <<1605, 1604, 1601, 1575, 1578, 32, 1578, 1593, 1585, 1610, 1601, 32, 1575, 1604, 1575, 1585, 1578, 1576, 1575, 1591>>,  \* "\u0645\u0644\u0641\u0627\u062A \u062A\u0639\u0631\u064A\u0641 \u0627\u0644\u0627\u0631\u062A\u0628\u0627\u0637"
      <<1575, 1604, 1603, 1608, 1603, 1610, 1586>>,  \* "\u0627\u0644\u0643\u0648\u0643\u064A\u0632"
      <<1587, 1610, 1575, 1587, 1577, 32, 1575, 1604, 1603, 1608, 1603, 1610, 1586>>,  \* "\u0633\u064A\u0627\u0633\u0629 \u0627\u0644\u0643\u0648\u0643\u064A\u0632"
      <<1606, 1587, 1578, 1582, 1583, 1605, 32, 1605, 1604, 1601, 1575, 1578>>,  \* "\u0646\u0633\u062A\u062E\u062F\u0645 \u0645\u0644\u0641\u0627\u062A"
      <<1610, 1587, 1578, 1582, 1583, 1605, 32, 1607, 1584, 1575, 32, 1575, 1604, 1605, 1608, 1602, 1593, 32, 1605, 1604, 1601, 1575, 1578>>,  \* "\u064A\u0633\u062A\u062E\u062F\u0645 \u0647\u0630\u0627 \u0627\u0644\u0645\u0648\u0642\u0639 \u0645\u0644\u0641\u0627\u062A"
      <<1580, 1605, 1610, 1593, 32, 1575, 1604, 1581, 1602, 1608, 1602, 32, 1605, 1581, 1601, 1608, 1592, 1577>>,  \* "\u062C\u0645\u064A\u0639 \u0627\u0644\u062D\u0642\u0648\u0642 \u0645\u062D\u0641\u0648\u0638\u0629"
      <<1581, 1602, 1608, 1602, 32, 1575, 1604, 1606, 1588, 1585>> }  \* "\u062D\u0642\u0648\u0642 \u0627\u0644\u0646\u0634\u0631"

\* PLACEHOLDER_PATTERNS = ["lorem ipsum"]
PLACEHOLDER_PATTERNS == {<<108, 111, 114, 101, 109, 32, 105, 112, 115, 117, 109>>}

\* Length of the match of \[\d*] at the start of s, 0 when there is none.
RECURSIVE DigitsThenBracket(_, _)
DigitsThenBracket(s, i) ==
    IF i > Len(s) THEN 0
    ELSE IF s[i] = 93 THEN i
    ELSE IF IsDigit(s[i]) THEN DigitsThenBracket(s, i + 1)
    ELSE 0

\* Length of the match of CITATION_REGEX = \[\d*]|\[edit]|\[citation needed]
\* at the start of s, 0 when there is none.
CitationMatch(s) ==
    IF s = <<>> \/ Head(s) # 91 THEN 0
    ELSE IF DigitsThenBracket(s, 2) > 0 THEN DigitsThenBracket(s, 2)
    ELSE IF startswith(s, <<91, 101, 100, 105, 116, 93>>) THEN 6
    ELSE IF startswith(s, <<91, 99, 105, 116, 97, 116, 105, 111, 110, 32, 110, 101, 101, 100, 101, 100, 93>>) THEN 17
    ELSE 0

\* CITATION_REGEX.sub("", line): the matches are found from the left and do
\* not overlap.
RECURSIVE CitationSubFrom(_, _)
CitationSubFrom(s, from) ==
    LET hits == SelectSeq(Indices(s),
                          LAMBDA i : i >= from /\ CitationMatch(Drop(s, i - 1)) > 0)
    IN  IF hits = <<>> THEN SubSeq(s, from, Len(s))
        ELSE SubSeq(s, from, hits[1] - 1)
                 \o CitationSubFrom(s, hits[1] + CitationMatch(Drop(s, hits[1] - 1)))

CitationSub(s) == CitationSubFrom(s, 1)

\* split_into_sentences(text, language), the sentence segmenter of datatrove:
\* a sentence ends with a terminator (. ! ? and the Arabic question mark) that
\* whitespace or the end of the text follows; the pieces are stripped and the
\* empty ones left out.
IsSentenceEnd(c) == c \in {46, 33, 63, 1567}

split_into_sentences(text) ==
    LET ends == SelectSeq(Indices(text),
                          LAMBDA i : /\ IsSentenceEnd(text[i])
                                     /\ (i = Len(text) \/ IsSpace(text[i + 1])))
        n == Len(ends)
        pieces == [k \in 1..(n + 1) |->
                      strip(SubSeq(text, IF k = 1 THEN 1 ELSE ends[k - 1] + 1,
                                         IF k > n THEN Len(text) ELSE ends[k]))]
    IN  SelectSeq(pieces, LAMBDA x : x # <<>>)

\* A variant that compares the word lengths whatever max_word_length is.
C4TooLongWord_NoSentinel(line, o) ==
    LET words == split(line)
    IN  \E i \in 1..Len(words) : Len(words[i]) > o.max_word_length

\* self.max_word_length != -1 and any(len(word) > self.max_word_length for word in words)
C4TooLongWord(line, o) ==
    /\ o.max_word_length # -1
    /\ LET words == split(line)
       IN  \E i \in 1..Len(words) : Len(words[i]) > o.max_word_length

\* if self.remove_citations: line = CITATION_REGEX.sub("", line)
C4RemoveCitations(line, o) == IF o.remove_citations THEN CitationSub(line) ELSE line

\* not line.endswith(END_PUNCTUATION) or line.endswith(ELLIPSIS)
C4NoTerminalPunct(line) ==
    ~endswithAny(line, END_PUNCTUATION) \/ endswith(line, ELLIPSIS)

\* self.min_words_per_line != -1 and len(words) < self.min_words_per_line
C4TooFewWords(line, o) ==
    o.min_words_per_line # -1 /\ Len(split(line)) < o.min_words_per_line

\* A variant that looks for the placeholder without lowering the line.
C4LoremIpsum_CaseSensitive(line, o) ==
    o.filter_lorem_ipsum /\ \E ph \in PLACEHOLDER_PATTERNS : Contains(line, ph)

\* self.filter_lorem_ipsum and any(placeholder in line_l for placeholder in PLACEHOLDER_PATTERNS)
C4LoremIpsum(line, o) ==
    o.filter_lorem_ipsum /\ \E ph \in PLACEHOLDER_PATTERNS : Contains(lower(line), ph)

\* self.filter_javascript and "javascript" in line_l
C4Javascript(line, o) == o.filter_javascript /\ Contains(lower(line), <<106, 97, 118, 97, 115, 99, 114, 105, 112, 116>>)

\* self.filter_curly_bracket and "{" in line
C4CurlyBracket(line, o) == o.filter_curly_bracket /\ Contains(line, <<123>>)

\* A variant that knows only the English phrases.
C4Policy_EnglishOnly(line, o) ==
    /\ o.filter_policy
    /\ \E ph \in {x \in POLICY_SUBSTRINGS : \A i \in 1..Len(x) : x[i] < 128} :
           Contains(lower(line), ph)

\* self.filter_policy and any(p in line_l for p in POLICY_SUBSTRINGS)
C4Policy(line, o) ==
    o.filter_policy /\ \E ph \in POLICY_SUBSTRINGS : Contains(lower(line), ph)

\* num_sentences += len(split_into_sentences(line, ...)) if self.split_paragraph else 1
C4SentencesOf(line, o) ==
    IF o.min_num_sentences = -1 THEN 0
    ELSE IF o.split_paragraph THEN Len(split_into_sentences(line)) ELSE 1

\* A variant that leaves the citations in the line.
C4Prepare_NoCitationStrip(raw, o) == strip(raw)

\* The line the terminal-punctuation test (and every later test) reads:
\* stripped, then with its citations removed.
C4Prepare(raw, o) == C4RemoveCitations(strip(raw), o)

\* The body of the loop for one line: what becomes of the line ("out" is the
\* statistic counted, or the reason of a rejection of the whole document),
\* the line as it stands then, and the sentences it adds.
C4Line(raw, o) ==
    LET l1 == strip(raw)
        l2 == C4Prepare(raw, o)
    IN  IF C4TooLongWord(l1, o)
        THEN [out |-> "line-filter-too_long_word", line |-> l1, sentences |-> 0]
        ELSE IF o.filter_no_terminal_punct /\ C4NoTerminalPunct(l2)
        THEN [out |-> "line-filter-no_terminal_punc", line |-> l2, sentences |-> 0]
        ELSE IF C4TooFewWords(l2, o)
        THEN [out |-> "line-filter-too_few_words", line |-> l2, sentences |-> 0]
        ELSE IF C4LoremIpsum(l2, o)
        THEN [out |-> "lorem_ipsum", line |-> l2, sentences |-> 0]
        ELSE IF C4Javascript(l2, o)
        THEN [out |-> "line-filter-javascript", line |-> l2, sentences |-> 0]
        ELSE IF C4CurlyBracket(l2, o)
        THEN [out |-> "curly_bracket", line |-> l2, sentences |-> 0]
        ELSE IF C4Policy(l2, o)
        THEN [out |-> "line-filter-policy", line |-> l2, sentences |-> 0]
        ELSE [out |-> "line-kept", line |-> l2, sentences |-> C4SentencesOf(l2, o)]

\* A variant in which an over-long word rejects the whole document.
C4DocRejects_WithLongWord == {"lorem_ipsum", "curly_bracket", "line-filter-too_long_word"}

\* The outcomes that return from filter() inside the loop.
C4DocRejects == {"lorem_ipsum", "curly_bracket"}

\* The loop over the lines: the outcome of every line looked at, up to and
\* with the first that rejects the document.
RECURSIVE C4Loop(_, _)
C4Loop(lines, o) ==
    IF lines = <<>> THEN <<>>
    ELSE LET r == C4Line(Head(lines), o)
         IN  IF r.out \in C4DocRejects THEN <<r>> ELSE <<r>> \o C4Loop(Tail(lines), o)

RECURSIVE SumSentences(_)
SumSentences(rs) == IF rs = <<>> THEN 0 ELSE Head(rs).sentences + SumSentences(Tail(rs))

\* kept_lines
C4KeptLines(rs) ==
    LET kept == SelectSeq(rs, LAMBDA r : r.out = "line-kept")
    IN  [i \in 1..Len(kept) |-> kept[i].line]

\* The stat_update() calls of the loop: "line-total" for every line looked
\* at, then the statistic of its outcome (none for a document rejection).
RECURSIVE C4Stats(_)
C4Stats(rs) ==
    IF rs = <<>> THEN <<>>
    ELSE <<"line-total">>
         \o (IF Head(rs).out \in C4DocRejects THEN <<>> ELSE <<Head(rs).out>>)
         \o C4Stats(Tail(rs))

\* if num_sentences < self.min_num_sentences
C4TooFewSentences(num_sentences, o) == num_sentences < o.min_num_sentences

\* ("\n" if self.split_paragraph else " ").join(kept_lines).strip()
C4Reassemble(kept, o) ==
    strip(join(IF o.split_paragraph THEN <<10>> ELSE <<32>>, kept))

\* lines = doc.text.splitlines() if self.split_paragraph else split_into_sentences(...)
C4LinesOf(text, o) ==
    IF o.split_paragraph THEN splitlines(text) ELSE split_into_sentences(text)

\* if not doc.text or len(doc.text.strip()) == 0, on the reassembled text
C4EmptyAfterFiltering(newtext) == newtext = <<>> \/ Len(strip(newtext)) = 0

\* A variant that tests the reassembled text for emptiness before the
\* sentence count.
C4Verdict_EmptyFirst(rs, newtext, o) ==
    IF rs # <<>> /\ rs[Len(rs)].out \in C4DocRejects THEN Reject(rs[Len(rs)].out)
    ELSE IF C4EmptyAfterFiltering(newtext) THEN Reject("empty_after_filtering")
    ELSE IF C4TooFewSentences(SumSentences(rs), o) THEN Reject("too_few_sentences")
    ELSE Accept

\* The verdict of filter(), given the outcomes rs of the loop and the text
\* newtext reassembled from the kept lines.
C4Verdict(rs, newtext, o) ==
    IF rs # <<>> /\ rs[Len(rs)].out \in C4DocRejects THEN Reject(rs[Len(rs)].out)
    ELSE IF C4TooFewSentences(SumSentences(rs), o) THEN Reject("too_few_sentences")
    ELSE IF C4EmptyAfterFiltering(newtext) THEN Reject("empty_after_filtering")
    ELSE Accept

\* A variant that assigns doc.text before the sentence count is tested.
C4Outcome_AssignFirst(text, rs, newtext, v) ==
    [text |-> IF v.reason \in C4DocRejects THEN text ELSE newtext,
     verdict |-> v, stats |-> C4Stats(rs), lines |-> rs]

\* What filter() leaves behind, given the outcomes rs of the loop and the text
\* newtext reassembled from the kept lines: doc.text is assigned only when
\* neither a line nor the sentence count has rejected the document.
C4Outcome(text, rs, newtext, v) ==
    [text |-> IF v.reason \in C4DocRejects \cup {"too_few_sentences"} THEN text ELSE newtext,
     verdict |-> v, stats |-> C4Stats(rs), lines |-> rs]

\* filter() from the end of the loop on, given the outcomes rs of the loop.
C4AfterLoop(text, rs, newtext, o) == C4Outcome(text, rs, newtext, C4Verdict(rs, newtext, o))

\* filter() on the lines it iterates over.
C4FilterLines(text, rs, o) == C4AfterLoop(text, rs, C4Reassemble(C4KeptLines(rs), o), o)

\* C4QualityFilter.filter(doc): the text the document holds after the call,
\* the verdict, the stat_update() calls and the outcome of every line.
C4Filter(text, o) == C4FilterLines(text, C4Loop(C4LinesOf(text, o), o), o)

\* The defaults of __init__.
C4Defaults ==
    [split_paragraph |-> TRUE, remove_citations |-> TRUE,
     filter_no_terminal_punct |-> FALSE, min_num_sentences |-> 3,
     min_words_per_line |-> 2, max_word_length |-> 1000,
     filter_lorem_ipsum |-> TRUE, filter_javascript |-> TRUE,
     filter_curly_bracket |-> FALSE, filter_policy |-> TRUE]

\* Every check enabled, with thresholds the sample lines fall on either side of.
C4AllOn ==
    [split_paragraph |-> TRUE, remove_citations |-> TRUE,
     filter_no_terminal_punct |-> TRUE, min_num_sentences |-> 2,
     min_words_per_line |-> 2, max_word_length |-> 7,
     filter_lorem_ipsum |-> TRUE, filter_javascript |-> TRUE,
     filter_curly_bracket |-> TRUE, filter_policy |-> TRUE]

\* Every check at its disabled sentinel.
C4AllOff ==
    [split_paragraph |-> TRUE, remove_citations |-> FALSE,
     filter_no_terminal_punct |-> FALSE, min_num_sentences |-> -1,
     min_words_per_line |-> -1, max_word_length |-> -1,
     filter_lorem_ipsum |-> FALSE, filter_javascript |-> FALSE,
     filter_curly_bracket |-> FALSE, filter_policy |-> FALSE]

C4OptionNames == DOMAIN C4AllOn

\* The options that differ from a in at most one place, taking there the
\* value of b, in line mode and in sentence mode.
C4Near(a, b) ==
    {[k \in C4OptionNames |->
         IF k = "split_paragraph" THEN sp ELSE IF k \in ks THEN b[k] ELSE a[k]] :
       ks \in {x \in SUBSET C4OptionNames : Cardinality(x) <= 1}, sp \in BOOLEAN}

C4Options ==
    C4Near(C4AllOn, C4AllOff) \cup C4Near(C4AllOff, C4AllOn)
        \cup C4Near(C4Defaults, C4AllOn) \cup C4Near(C4Defaults, C4AllOff)

C4SampleLines ==
    { <<97, 32, 98, 46>>,  \* "a b.": a plain line of one sentence
      <<99, 32, 100, 46, 32, 101, 32, 102, 46>>,  \* "c d. e f.": a plain line of two sentences
      <<87, 101, 32, 117, 115, 101, 32, 99, 111, 111, 107, 105, 101, 115, 32, 97, 110, 100, 32, 97, 32, 112, 114, 105, 118, 97, 99, 121, 32, 112, 111, 108, 105, 99, 121, 46>>,  \* "We use cookies and a privacy policy.": the policy line of Scenario B
      <<76, 111, 114, 101, 109, 32, 73, 112, 115, 117, 109, 32, 100, 111, 108, 111, 114, 46>>,  \* "Lorem Ipsum dolor.": a placeholder line with terminal punctuation
      <<108, 111, 114, 101, 109, 32, 105, 112, 115, 117, 109>>,  \* "lorem ipsum": a placeholder line without terminal punctuation
      <<97, 32, 98, 46, 46, 46, 91, 49, 93>>,  \* "a b...[1]": ends in an ellipsis and a citation
      <<97, 32, 98, 91, 49, 93, 46, 46, 46>>,  \* "a b[1]...": ends in a citation and an ellipsis
      <<97, 32, 98, 46, 91, 49, 93>>,  \* "a b.[1]": ends in a full stop and a citation
      <<120, 32, 123, 121, 125, 32, 122, 46>>,  \* "x {y} z.": holds a curly bracket
      <<101, 110, 97, 98, 108, 101, 32, 74, 97, 118, 97, 83, 99, 114, 105, 112, 116, 32, 110, 111, 119, 46>>,  \* "enable JavaScript now.": mentions javascript
      <<97, 98, 99, 100, 101, 102, 103, 104, 32, 108, 111, 114, 101, 109, 32, 105, 112, 115, 117, 109, 46>>,  \* "abcdefgh lorem ipsum.": a placeholder line with a word of 8 characters
      <<119, 111, 114, 100>>,  \* "word": one word, no terminal punctuation
      <<108, 111, 114, 101, 109, 32, 105, 112, 115, 117, 109, 32, 112, 114, 105, 118, 97, 99, 121, 32, 112, 111, 108, 105, 99, 121, 46>>,  \* "lorem ipsum privacy policy.": a policy line that is also a placeholder line
      <<32, 97, 32, 91, 99, 105, 116, 97, 116, 105, 111, 110, 32, 110, 101, 101, 100, 101, 100, 93, 32, 98, 32, 91, 101, 100, 105, 116, 93, 46, 32>>,  \* " a [citation needed] b [edit]. ": citations inside the line, spaces around it
      <<1575, 1604, 1603, 1608, 1603, 1610, 1586, 32, 1575, 1604, 1603, 1567>>,  \* "\u0627\u0644\u0643\u0648\u0643\u064A\u0632 \u0627\u0644\u0643\u061F": an Arabic policy line ending in the Arabic question mark
      <<>> }  \* "": an empty line

\* The documents of exactly k lines, joined by newlines.
RECURSIVE C4TextsOf(_)
C4TextsOf(k) ==
    IF k = 0 THEN {<<>>}
    ELSE IF k = 1 THEN C4SampleLines
    ELSE {t \o <<10>> \o l : t \in C4TextsOf(k - 1), l \in C4SampleLines}

C4Texts == UNION {C4TextsOf(k) : k \in 0..MaxLines}

C4InitState ==
    /\ pc = "c4_ready"
    /\ cfg \in C4Options
    /\ \E t \in C4Texts : doc = [id |-> 1, text |-> t, metadata |-> <<>>]
    /\ input = <<doc>>
    /\ verdict = NoVerdict
    /\ stats = <<>>
    /\ hist = <<>>
    /\ sinks = NoSinks
    /\ output = <<>>

\* One call of C4QualityFilter.filter(doc).
C4Run ==
    /\ pc = "c4_ready"
    /\ pc' = "c4_done"
    /\ \E r \in {C4Filter(doc.text, cfg)} :
        /\ doc' = [doc EXCEPT !.text = r.text]
        /\ verdict' = r.verdict
        /\ stats' = stats \o r.stats
        /\ hist' = Append(hist, HistEntry(doc, "c4", r.verdict, doc', r.lines))
    /\ UNCHANGED <<cfg, input, sinks, output>>

C4Next == C4Run

SpecC4 == C4InitState /\ [][C4Next]_vars

(***************************************************************************)
(* Claims about the C4 filter, checked under SpecC4.                       *)
(***************************************************************************)

\* The lines (or sentences) the i-th recorded call iterated over.
HistLines(i) == C4LinesOf(hist[i].before, cfg)

\* "lorem ipsum" occurs in the line, in any letter case.
HoldsLoremIpsum(line) ==
    Contains(lower(line), <<108, 111, 114, 101, 109, 32, 105, 112, 115, 117, 109>>)

\* A policy phrase occurs in the line, in any letter case.
HoldsPolicy(line) == \E ph \in POLICY_SUBSTRINGS : Contains(lower(line), ph)

\* The line passes the per-line checks that come before the placeholder
\* check: no word longer than max_word_length, terminal punctuation after the
\* citations are removed, at least min_words_per_line words.
SurvivesEarlierChecks(raw, o) ==
    LET l1 == strip(raw)
        l2 == IF o.remove_citations THEN CitationSub(l1) ELSE l1
    IN  /\ o.max_word_length = -1
           \/ \A j \in 1..Len(split(l1)) : Len(split(l1)[j]) <= o.max_word_length
        /\ ~o.filter_no_terminal_punct
           \/ (endswithAny(l2, END_PUNCTUATION) /\ ~endswith(l2, ELLIPSIS))
        /\ o.min_words_per_line = -1 \/ Len(split(l2)) >= o.min_words_per_line

SwappedOrderDrops(raw) ==
    LET l1 == strip(raw)
    IN  ~endswithAny(l1, END_PUNCTUATION) \/ endswith(l1, ELLIPSIS)

\* The line ends in "...[1]" or in "[1]...".
IsOrderExample(raw) ==
    \/ endswith(strip(raw), <<46, 46, 46, 91, 49, 93>>)
    \/ endswith(strip(raw), <<91, 49, 93, 46, 46, 46>>)

\* The line ends in a full stop and a citation, and without its citations it
\* does not end in an ellipsis.
IsStopThenCitation(raw) ==
    /\ endswith(strip(raw), <<46, 91, 49, 93>>)
    /\ ~endswith(CitationSub(strip(raw)), ELLIPSIS)

\* C8 as stated: with remove_citations and filter_no_terminal_punct enabled,
\* a line ending in "...[1]" or in "[1]..." is kept or dropped by the
\* terminal-punctuation test differently under the fixed order (strip the
\* citations, then test) than with the two steps swapped.
C8_OrderObservableOnExamples ==
    \A i \in 1..Len(hist) :
        (hist[i].stage = "c4" /\ cfg.remove_citations /\ cfg.filter_no_terminal_punct) =>
            \A k \in 1..Len(hist[i].lines) :
                (/\ IsOrderExample(HistLines(i)[k])
                 /\ hist[i].lines[k].out # "line-filter-too_long_word")
                    => (hist[i].lines[k].out = "line-filter-no_terminal_punc")
                           # SwappedOrderDrops(HistLines(i)[k])

\* C8 amended: with remove_citations and filter_no_terminal_punct enabled the
\* terminal-punctuation test reads the line without its citations; a line
\* ending in "...[1]" or in "[1]..." is dropped under the fixed order and
\* under the swapped order alike; the order is observable on a line ending
\* in a full stop and a citation, which passes the test under the fixed order
\* and fails it with the steps swapped.
C8_CitationsStrippedBeforeTest ==
    \A i \in 1..Len(hist) :
        (hist[i].stage = "c4" /\ cfg.remove_citations /\ cfg.filter_no_terminal_punct) =>
            \A k \in 1..Len(hist[i].lines) :
                LET raw == HistLines(i)[k]
                    out == hist[i].lines[k].out
                    bare == CitationSub(strip(raw))
                IN  out # "line-filter-too_long_word" =>
                        /\ (out = "line-filter-no_terminal_punc")
                               <=> (~endswithAny(bare, END_PUNCTUATION) \/ endswith(bare, ELLIPSIS))
                        /\ IsOrderExample(raw)
                               => (out = "line-filter-no_terminal_punc" /\ SwappedOrderDrops(raw))
                        /\ IsStopThenCitation(raw)
                               => (out # "line-filter-no_terminal_punc" /\ SwappedOrderDrops(raw))

\* A line ending in a full stop and a citation was kept, without the
\* citation, by a filter with both options enabled.
C8_Witness ==
    /\ Len(hist) = 1
    /\ hist[1].stage = "c4"
    /\ cfg.remove_citations /\ cfg.filter_no_terminal_punct
    /\ \E k \in 1..Len(hist[1].lines) :
           /\ IsStopThenCitation(HistLines(1)[k])
           /\ hist[1].lines[k].out = "line-kept"
           /\ hist[1].lines[k].line = CitationSub(strip(HistLines(1)[k]))

\* The lines of a document that hold no policy phrase, in their order.
WithoutPolicyLines(ls) == SelectSeq(ls, LAMBDA l : ~HoldsPolicy(l))

\* The run of the filter on the lines of the document without its policy
\* lines.
RunWithoutPolicyLines(i) ==
    C4FilterLines(hist[i].before, C4Loop(WithoutPolicyLines(HistLines(i)), cfg), cfg)

\* The i-th recorded call came out as the run without the policy lines does:
\* the same verdict, the same kept lines, the same text.
SameAsWithoutPolicyLines(i) ==
    /\ hist[i].ok = RunWithoutPolicyLines(i).verdict.ok
    /\ hist[i].reason = RunWithoutPolicyLines(i).verdict.reason
    /\ C4KeptLines(hist[i].lines) = C4KeptLines(RunWithoutPolicyLines(i).lines)
    /\ hist[i].ok => hist[i].text = RunWithoutPolicyLines(i).text

\* C9 as stated: with filter_policy enabled no line holding a policy phrase is
\* kept or appears in the output text, and the verdict, the kept lines and
\* the output text are those of the document without its policy lines.
C9_PolicyLineIndependence ==
    \A i \in 1..Len(hist) :
        (hist[i].stage = "c4" /\ cfg.filter_policy) =>
            /\ \A k \in 1..Len(hist[i].lines) :
                   HoldsPolicy(HistLines(i)[k]) => hist[i].lines[k].out # "line-kept"
            /\ hist[i].ok => ~HoldsPolicy(hist[i].text)
            /\ SameAsWithoutPolicyLines(i)

\* C9 amended: with filter_policy enabled no line holding a policy phrase is
\* kept or appears in the output text; and unless a policy line itself
\* rejects the document (it holds a placeholder phrase or a curly bracket
\* that reaches the enabled document-level check), the verdict, the kept
\* lines and the output text are those of the document without its policy
\* lines.
C9_PolicyLineDroppedAlone ==
    \A i \in 1..Len(hist) :
        (hist[i].stage = "c4" /\ cfg.filter_policy) =>
            /\ \A k \in 1..Len(hist[i].lines) :
                   HoldsPolicy(HistLines(i)[k]) => hist[i].lines[k].out # "line-kept"
            /\ hist[i].ok => ~HoldsPolicy(hist[i].text)
            /\ (\A k \in 1..Len(hist[i].lines) :
                    HoldsPolicy(HistLines(i)[k]) => hist[i].lines[k].out \notin C4DocRejects)
                   => SameAsWithoutPolicyLines(i)

\* The policy line of Scenario B was dropped for its policy phrase, another
\* line was kept, and the document was accepted with that line as its text.
C9_Witness ==
    /\ Len(hist) = 1
    /\ hist[1].stage = "c4"
    /\ cfg.filter_policy
    /\ hist[1].ok
    /\ Len(hist[1].lines) = 2
    /\ \E k \in 1..2 :
           /\ HoldsPolicy(HistLines(1)[k])
           /\ hist[1].lines[k].out = "line-filter-policy"
           /\ hist[1].lines[3 - k].out = "line-kept"
           /\ hist[1].text = hist[1].lines[3 - k].line

(***************************************************************************)
(* FineWebQualityFilter.                                                   *)
(***************************************************************************)

\* TERMINAL_PUNCTUATION = (".", "!", "?", "\u061F", "\u061B", "\u2026", "...")
TERMINAL_PUNCTUATION ==
    {<<46>>, <<33>>, <<63>>, <<1567>>, <<1563>>, <<8230>>, <<46, 46, 46>>}

\* self.stop_chars = stop_chars if stop_chars is not None else tuple(TERMINAL_PUNCTUATION)
FineWebStopChars(o) ==
    IF o.stop_chars.none THEN TERMINAL_PUNCTUATION ELSE o.stop_chars.chars

\* A variant of the FineWeb line list that keeps the blank lines.
FineWebLines_KeepBlank(text) == splitNL(text)

\* lines = doc.text.split("\n"); lines = [line for line in lines if line.strip() != ""]
FineWebLines(text) == SelectSeq(splitNL(text), LAMBDA line : strip(line) # <<>>)

\* find_duplicates(lines)[1] of datatrove: the characters of every line that
\* repeats an earlier line.
RECURSIVE find_duplicates_chars(_, _)
find_duplicates_chars(lines, i) ==
    IF i > Len(lines) THEN 0
    ELSE (IF \E j \in 1..(i - 1) : lines[j] = lines[i] THEN Len(lines[i]) ELSE 0)
         + find_duplicates_chars(lines, i + 1)

\* A variant without the exemption of a zero ratio.
FineWebLinePunct_NoExemption(lines, o) ==
    RatioBelow(CountIf(lines, LAMBDA line : endswithAny(line, FineWebStopChars(o))),
               Len(lines), o.line_punct_thr)

\* ratio = sum(1 for line in lines if line.endswith(self.stop_chars)) / len(lines)
\* if ratio < self.line_punct_thr and not (ratio == 0 and self.line_punct_exclude_zero)
FineWebLinePunct(lines, o) ==
    LET k == CountIf(lines, LAMBDA line : endswithAny(line, FineWebStopChars(o)))
    IN  RatioBelow(k, Len(lines), o.line_punct_thr)
            /\ ~(k = 0 /\ o.line_punct_exclude_zero)

\* A variant that counts only the lines shorter than short_line_length.
FineWebIsShortLine_Strict(line, o) == Len(line) < o.short_line_length

\* len(line) <= self.short_line_length
FineWebIsShortLine(line, o) == Len(line) <= o.short_line_length

\* ratio = sum(1 for line in lines if len(line) <= self.short_line_length) / len(lines)
\* if ratio > self.short_line_threshold
FineWebShortLines(lines, o) ==
    RatioAbove(CountIf(lines, LAMBDA line : FineWebIsShortLine(line, o)), Len(lines),
               o.short_line_thr)

\* A variant that removes the punctuation together with the newlines.
FineWebWithoutNewlines_NoPunct(text) == SelectSeq(text, LAMBDA c : c # 10 /\ ~IsPunct(c))

\* text_without_newlines = doc.text.replace("\n", "")
FineWebWithoutNewlines(text) == SelectSeq(text, LAMBDA c : c # 10)

\* ratio = find_duplicates(lines)[1] / len(text_without_newlines)
\* if ratio > self.char_duplicates_ratio
FineWebCharDup(lines, text, o) ==
    RatioAbove(find_duplicates_chars(lines, 1), Len(FineWebWithoutNewlines(text)),
               o.char_duplicates_ratio)

\* new_line_ratio = new_line / len(words) if len(words) > 0 else float('inf')
\* if new_line_ratio > self.new_line_ratio
FineWebListRatio(text, n_words, o) ==
    n_words = 0 \/ RatioAbove(count(text, <<10>>), n_words, o.new_line_ratio)

\* FineWebQualityFilter.filter(doc): the verdict; the document is only read.
FineWebFilter(text, o) ==
    LET lines == FineWebLines(text)
        n_words == Len(split_into_words(text))
    IN  IF Len(lines) = 0 THEN Reject("empty")
        ELSE IF FineWebLinePunct(lines, o) THEN Reject("line_punct_ratio")
        ELSE IF FineWebShortLines(lines, o) THEN Reject("short_line_ratio")
        ELSE IF Len(FineWebWithoutNewlines(text)) = 0 THEN Reject("empty_after_newline_removal")
        ELSE IF FineWebCharDup(lines, text, o) THEN Reject("char_dup_ratio")
        ELSE IF n_words = 0 THEN Reject("no_words")
        ELSE IF FineWebListRatio(text, n_words, o) THEN Reject("list_ratio")
        ELSE Accept

\* stop_chars = None
NoStopChars == [none |-> TRUE, chars |-> {}]

\* The defaults of __init__.
FineWebDefaults ==
    [line_punct_thr |-> Num(12, 100), line_punct_exclude_zero |-> FALSE,
     stop_chars |-> NoStopChars, short_line_thr |-> Num(67, 100), short_line_length |-> 30,
     char_duplicates_ratio |-> Num(1, 100), new_line_ratio |-> Num(3, 10)]

\* The defaults and, for every threshold, a value that lets every document
\* of the model pass its check; stop characters left to the default or given
\* as the full stop alone.
FineWebOptions ==
    [line_punct_thr : {Num(12, 100), Num(0, 1)}, line_punct_exclude_zero : BOOLEAN,
     stop_chars : {NoStopChars, [none |-> FALSE, chars |-> {<<46>>}]}, short_line_thr : {Num(67, 100), Num(1, 1)},
     short_line_length : {30, 1},
     char_duplicates_ratio : {Num(1, 100), Num(1, 1)},
     new_line_ratio : {Num(3, 10), Num(5, 1)}]

\* n copies of the letter "a".
RunOfA(n) == [i \in 1..n |-> 97]

\* Lines on either side of every test: with and without a stop character (a
\* full stop, the Arabic question mark, a stop followed by a space), blank
\* and empty, of 29, 30 and 31 characters, of several words.
FineWebSampleLines ==
    { <<97>>, <<97, 46>>, <<98, 1567>>, <<97, 46, 32>>, <<>>, <<32>>,
      RunOfA(30), RunOfA(29) \o <<46>>, RunOfA(31), RunOfA(30) \o <<46>>,
      <<97, 32, 98, 32, 99, 32, 100, 32, 101, 32, 102, 32, 103, 46>>,
      <<35>> }

\* The documents of exactly k lines, joined by newlines.
RECURSIVE FineWebTextsOf(_)
FineWebTextsOf(k) ==
    IF k = 0 THEN {<<>>}
    ELSE IF k = 1 THEN FineWebSampleLines
    ELSE {t \o <<10>> \o l : t \in FineWebTextsOf(k - 1), l \in FineWebSampleLines}

FineWebTexts == UNION {FineWebTextsOf(k) : k \in 0..MaxLines}

FineWebInitState ==
    /\ pc = "fineweb_ready"
    /\ cfg \in FineWebOptions
    /\ \E t \in FineWebTexts : doc = [id |-> 1, text |-> t, metadata |-> <<>>]
    /\ input = <<doc>>
    /\ verdict = NoVerdict
    /\ stats = <<>>
    /\ hist = <<>>
    /\ sinks = NoSinks
    /\ output = <<>>

\* One call of FineWebQualityFilter.filter(doc).
FineWebRun ==
    /\ pc = "fineweb_ready"
    /\ pc' = "fineweb_done"
    /\ verdict' = FineWebFilter(doc.text, cfg)
    /\ hist' = Append(hist, HistEntry(doc, "fineweb", verdict', doc, <<>>))
    /\ UNCHANGED <<cfg, doc, stats, input, sinks, output>>

FineWebNext == FineWebRun

SpecFineWeb == FineWebInitState /\ [][FineWebNext]_vars

(***************************************************************************)
(* Claims about the FineWeb filter, checked under SpecFineWeb.             *)
(***************************************************************************)

\* The document has exactly two non-blank lines, both of at most
\* short_line_length characters.
TwoShortLines(text, o) ==
    /\ Len(FineWebLines(text)) = 2
    /\ \A k \in 1..2 : Len(FineWebLines(text)[k]) <= o.short_line_length

\* One of the non-blank lines ends in a stop character.
SomeLineEndsInStop(text) ==
    \E k \in 1..Len(FineWebLines(text)) :
        endswithAny(FineWebLines(text)[k], TERMINAL_PUNCTUATION)

\* C10 as stated: under the defaults every document of exactly two non-blank
\* lines, both no longer than short_line_length, is rejected with
\* "short_line_ratio".
C10_TwoShortLinesRejected ==
    \A i \in 1..Len(hist) :
        (/\ hist[i].stage = "fineweb"
         /\ cfg = FineWebDefaults
         /\ TwoShortLines(hist[i].before, cfg))
            => (~hist[i].ok /\ hist[i].reason = "short_line_ratio")

\* C10 amended: under the defaults a document of exactly two non-blank
\* lines, both no longer than short_line_length, is rejected: with
\* "short_line_ratio" when one of the two lines ends in a stop character,
\* with "line_punct_ratio" when neither does.
C10_TwoShortLinesByPunctuation ==
    \A i \in 1..Len(hist) :
        (/\ hist[i].stage = "fineweb"
         /\ cfg = FineWebDefaults
         /\ TwoShortLines(hist[i].before, cfg))
            => /\ ~hist[i].ok
               /\ hist[i].reason = IF SomeLineEndsInStop(hist[i].before)
                                   THEN "short_line_ratio"
                                   ELSE "line_punct_ratio"

\* Under the defaults a document of two lines, one of exactly 30 characters
\* and one ending in a stop character, was rejected with "short_line_ratio".
C10_Witness ==
    /\ Len(hist) = 1
    /\ hist[1].stage = "fineweb"
    /\ cfg = FineWebDefaults
    /\ TwoShortLines(hist[1].before, cfg)
    /\ \E k \in 1..2 : Len(FineWebLines(hist[1].before)[k]) = cfg.short_line_length
    /\ SomeLineEndsInStop(hist[1].before)
    /\ hist[1].reason = "short_line_ratio"

(***************************************************************************)
(* The Gopher and the C4 filter side by side: one filter() call of either, *)
(* on any of its documents under any of its options.                       *)
(***************************************************************************)

SentinelInitState == GopherInitState \/ C4InitState

SentinelNext == GopherRun \/ C4Run

SpecSentinels == SentinelInitState /\ [][SentinelNext]_vars

\* The statistic or reason `out` was counted for some line of the i-th call.
SomeLineOut(i, out) == \E k \in 1..Len(hist[i].lines) : hist[i].lines[k].out = out

\* C2: a check whose threshold is at its disabled sentinel never rejects and
\* never drops a line: the Gopher filter never returns the reason of a check
\* whose threshold is None, and the C4 filter never drops a line or rejects
\* a document for a check set to -1 or False.
C2_DisabledCheckNeverFires ==
    \A i \in 1..Len(hist) :
        /\ hist[i].stage = "gopher_qual" =>
            /\ ~cfg.min_doc_words.some => hist[i].reason # "gopher_short_doc"
            /\ ~cfg.max_doc_words.some => hist[i].reason # "gopher_long_doc"
            /\ ~cfg.min_avg_word_length.some => hist[i].reason # "gopher_below_avg_threshold"
            /\ ~cfg.max_avg_word_length.some => hist[i].reason # "gopher_above_avg_threshold"
            /\ ~cfg.max_symbol_word_ratio.some
                   => hist[i].reason \notin {"gopher_too_many_hashes", "gopher_too_many_ellipsis"}
            /\ ~cfg.max_bullet_lines_ratio.some => hist[i].reason # "gopher_too_many_bullets"
            /\ ~cfg.max_ellipsis_lines_ratio.some
                   => hist[i].reason # "gopher_too_many_end_ellipsis"
            /\ ~cfg.max_non_alpha_words_ratio.some
                   => hist[i].reason # "gopher_too_many_non_alpha"
        /\ hist[i].stage = "c4" =>
            /\ cfg.max_word_length = -1 => ~SomeLineOut(i, "line-filter-too_long_word")
            /\ cfg.min_words_per_line = -1 => ~SomeLineOut(i, "line-filter-too_few_words")
            /\ cfg.min_num_sentences = -1 => hist[i].reason # "too_few_sentences"
            /\ ~cfg.filter_no_terminal_punct => ~SomeLineOut(i, "line-filter-no_terminal_punc")
            /\ ~cfg.filter_lorem_ipsum => hist[i].reason # "lorem_ipsum"
            /\ ~cfg.filter_javascript => ~SomeLineOut(i, "line-filter-javascript")
            /\ ~cfg.filter_curly_bracket => hist[i].reason # "curly_bracket"
            /\ ~cfg.filter_policy => ~SomeLineOut(i, "line-filter-policy")
            /\ \A name \in {"line-filter-too_long_word", "line-filter-too_few_words",
                            "line-filter-no_terminal_punc", "line-filter-javascript",
                            "line-filter-policy"} :
                   SomeLineOut(i, name) <=> StatCount(stats, name) > 0

\* A C4 filter with max_word_length = -1 kept a line with a word of eight
\* characters, which the same filter with max_word_length = 7 drops.
C2_Witness ==
    /\ Len(hist) = 1
    /\ hist[1].stage = "c4"
    /\ cfg.max_word_length = -1
    /\ \E k \in 1..Len(hist[1].lines) :
           /\ hist[1].lines[k].out = "line-kept"
           /\ \E j \in 1..Len(split(hist[1].lines[k].line)) :
                  Len(split(hist[1].lines[k].line)[j]) > 7

(***************************************************************************)
(* The pipeline of process.py: reader, Normalizer, GopherRepetitionFilter, *)
(* GopherQualityFilter, C4QualityFilter, final writer.  The stages are     *)
(* chained generators, so one document runs through the whole chain before *)
(* the reader delivers the next.                                           *)
(***************************************************************************)

\* The filter stages of the pipeline list, in order.
Stages == <<"norm", "gopher_rep", "gopher_qual", "c4">>

\* The position of a stage in the pipeline list.
StageIndex(stage) == CHOOSE k \in 1..Len(Stages) : Stages[k] = stage

\* A variant that passes every document on, whatever the verdict.
NextStage_Forward(stage, ok) ==
    IF StageIndex(stage) = Len(Stages) THEN "write" ELSE Stages[StageIndex(stage) + 1]

\* BaseFilter.run: an accepted document is yielded to the next element of the
\* pipeline list, a rejected one is not; the reader is asked for the next.
NextStage(stage, ok) ==
    IF ~ok THEN "read"
    ELSE IF StageIndex(stage) = Len(Stages) THEN "write"
    ELSE Stages[StageIndex(stage) + 1]

\* BaseFilter.run on a rejection, with the exclusion writer process.py gives
\* every stage: doc.metadata["filter_reason"] = reason; writer.write(doc).
Excluded(d, v) ==
    IF v.ok THEN <<>>
    ELSE <<[d EXCEPT !.metadata = SetKey(d.metadata, "filter_reason", v.reason)]>>

\* The verdicts GopherRepetitionFilter (datatrove) may return: the model
\* leaves the choice open.
GopherRepVerdicts == {Accept, Reject("dup_line_frac"), Reject("top_n_gram")}

\* Fifteen words in three sentences on one line: accepted by every stage.
GoodLine ==
    <<97, 98, 32, 97, 98, 32, 97, 98, 32, 97, 98, 32, 97, 98, 46, 32,
      97, 98, 32, 97, 98, 32, 97, 98, 32, 97, 98, 32, 97, 98, 46, 32,
      97, 98, 32, 97, 98, 32, 97, 98, 32, 97, 98, 32, 97, 98, 46>>

\* The texts the extractor delivers: accepted as it is; accepted after the
\* Normalizer removed a diacritic and a tatweel; diacritics and whitespace
\* only; empty; "a b c"; fifteen words in one sentence; a placeholder line
\* after a good line; a good line and the policy line of Scenario B.
PipeTexts ==
    { GoodLine,
      <<97, 1614, 98, 1600>> \o Drop(GoodLine, 2),
      <<1614, 32, 1614, 10, 1615>>,
      <<>>,
      <<97, 32, 98, 32, 99>>,
      WordsAb(15) \o <<46>>,
      GoodLine \o <<10>> \o <<76, 111, 114, 101, 109, 32, 105, 112, 115, 117, 109, 32, 97, 98, 46>>,
      GoodLine \o <<10, 87, 101, 32, 117, 115, 101, 32, 99, 111, 111, 107, 105, 101, 115, 32, 97, 110, 100, 32, 97, 32, 112, 114, 105, 118, 97, 99, 121, 32, 112, 111, 108, 105, 99, 121, 46>> }

\* The documents of one run: up to MaxDocs texts, numbered as read.
PipeInputs ==
    {[i \in 1..Len(ts) |-> [id |-> i, text |-> ts[i], metadata |-> <<>>]] :
        ts \in SeqsUpTo(PipeTexts, MaxDocs) \ {<<>>}}

\* The options process.py constructs the filters with.
PipeCfg == [norm |-> NormDefaults, gopher_qual |-> GopherDefaults, c4 |-> C4Defaults]

Init ==
    /\ pc = "read"
    /\ cfg = PipeCfg
    /\ input \in PipeInputs
    /\ doc = NoDoc
    /\ verdict = NoVerdict
    /\ stats = <<>>
    /\ hist = <<>>
    /\ sinks = NoSinks
    /\ output = <<>>

\* WarcReader and Trafilatura deliver the next document.
PipeRead ==
    /\ pc = "read"
    /\ input # <<>>
    /\ doc' = Head(input)
    /\ input' = Tail(input)
    /\ pc' = "norm"
    /\ verdict' = NoVerdict
    /\ UNCHANGED <<cfg, stats, hist, sinks, output>>

\* The reader is exhausted: the run ends.
PipeFinish ==
    /\ pc = "read"
    /\ input = <<>>
    /\ pc' = "done"
    /\ UNCHANGED <<cfg, doc, verdict, stats, hist, input, sinks, output>>

\* ArabicNormalizationFilter: filter() and what BaseFilter.run does with its
\* verdict.  A rejected document is written by filter() itself and again by
\* run().
PipeNorm ==
    /\ pc = "norm"
    /\ \E r \in {NormFilter(doc, cfg.norm)} :
        /\ doc' = r.doc
        /\ verdict' = r.verdict
        /\ stats' = stats \o r.stats
        /\ hist' = Append(hist, HistEntry(doc, "norm", r.verdict, r.doc, <<>>))
        /\ sinks' = [sinks EXCEPT !["norm"] = @ \o r.written \o Excluded(r.doc, r.verdict)]
        /\ pc' = NextStage("norm", r.verdict.ok)
    /\ UNCHANGED <<cfg, input, output>>

\* GopherRepetitionFilter: any verdict.
PipeGopherRep ==
    /\ pc = "gopher_rep"
    /\ \E v \in GopherRepVerdicts :
        /\ verdict' = v
        /\ hist' = Append(hist, HistEntry(doc, "gopher_rep", v, doc, <<>>))
        /\ sinks' = [sinks EXCEPT !["gopher_rep"] = @ \o Excluded(doc, v)]
        /\ pc' = NextStage("gopher_rep", v.ok)
    /\ UNCHANGED <<cfg, doc, stats, input, output>>

\* GopherQualityFilter with its defaults.
PipeGopherQual ==
    /\ pc = "gopher_qual"
    /\ \E v \in {GopherFilter(doc.text, cfg.gopher_qual)} :
        /\ verdict' = v
        /\ hist' = Append(hist, HistEntry(doc, "gopher_qual", v, doc, <<>>))
        /\ sinks' = [sinks EXCEPT !["gopher_qual"] = @ \o Excluded(doc, v)]
        /\ pc' = NextStage("gopher_qual", v.ok)
    /\ UNCHANGED <<cfg, doc, stats, input, output>>

\* C4QualityFilter with its defaults: an accepted document leaves with the
\* kept lines as its text.
PipeC4 ==
    /\ pc = "c4"
    /\ \E r \in {C4Filter(doc.text, cfg.c4)} :
        /\ doc' = [doc EXCEPT !.text = r.text]
        /\ verdict' = r.verdict
        /\ stats' = stats \o r.stats
        /\ hist' = Append(hist, HistEntry(doc, "c4", r.verdict, doc', r.lines))
        /\ sinks' = [sinks EXCEPT !["c4"] = @ \o Excluded(doc', r.verdict)]
        /\ pc' = NextStage("c4", r.verdict.ok)
    /\ UNCHANGED <<cfg, input, output>>

\* The final JsonlWriter writes the document it is handed.
PipeWrite ==
    /\ pc = "write"
    /\ output' = Append(output, doc)
    /\ pc' = "read"
    /\ UNCHANGED <<cfg, doc, verdict, stats, hist, input, sinks>>

Next ==
    \/ PipeRead
    \/ PipeNorm
    \/ PipeGopherRep
    \/ PipeGopherQual
    \/ PipeC4
    \/ PipeWrite
    \/ PipeFinish

Spec == Init /\ [][Next]_vars

(***************************************************************************)
(* Claims about the pipeline, checked under Spec.                          *)
(***************************************************************************)

\* The numbers of the documents of a run.
DocIds == 1..MaxDocs

\* Document d was handed to the stage: the stage's filter() ran on it.
Received(d, stage) == \E i \in 1..Len(hist) : hist[i].id = d /\ hist[i].stage = stage

\* The stage rejected document d.
RejectedBy(d, stage) ==
    \E i \in 1..Len(hist) : hist[i].id = d /\ hist[i].stage = stage /\ ~hist[i].ok

\* The final writer wrote document d, or holds it to write it.
AtWriter(d) ==
    \/ \E j \in 1..Len(output) : output[j].id = d
    \/ (pc = "write" /\ doc.id = d)

\* The stage's rejection sink holds document d with the reason of the
\* rejection.
InSink(d, stage) ==
    \E i \in 1..Len(hist), j \in 1..Len(sinks[stage]) :
        /\ hist[i].id = d /\ hist[i].stage = stage /\ ~hist[i].ok
        /\ sinks[stage][j].id = d
        /\ "filter_reason" \in DOMAIN sinks[stage][j].metadata
        /\ sinks[stage][j].metadata["filter_reason"] = hist[i].reason

\* C1: once a stage has rejected a document, no later stage and not the
\* final writer receives it, and it is recorded in that stage's rejection
\* sink; a document reaches the final writer only if every stage accepted
\* it.
C1_RejectionIsTerminal ==
    /\ \A d \in DocIds, k \in 1..Len(Stages) :
           RejectedBy(d, Stages[k]) =>
               /\ \A l \in (k + 1)..Len(Stages) : ~Received(d, Stages[l])
               /\ ~AtWriter(d)
               /\ InSink(d, Stages[k])
    /\ \A d \in DocIds :
           AtWriter(d) =>
               \A k \in 1..Len(Stages) : Received(d, Stages[k]) /\ ~RejectedBy(d, Stages[k])
    /\ \A k \in 1..Len(Stages) :
           \A j \in 1..Len(sinks[Stages[k]]) :
               RejectedBy(sinks[Stages[k]][j].id, Stages[k])

\* A run ended in which one document was rejected by the Gopher quality
\* filter and recorded in its sink, and another was written by the final
\* writer.
C1_Witness ==
    /\ pc = "done"
    /\ Len(output) = 1
    /\ Len(sinks["gopher_qual"]) = 1
    /\ RejectedBy(sinks["gopher_qual"][1].id, "gopher_qual")
    /\ output[1].id # sinks["gopher_qual"][1].id

(***************************************************************************)
(* The four filters side by side: each constructed with any of its options *)
(* and called on any of its documents.                                     *)
(***************************************************************************)

FiltersInitState == NormInitState \/ GopherInitState \/ C4InitState \/ FineWebInitState

FiltersNext == NormNext \/ GopherNext \/ C4Next \/ FineWebNext

SpecFilters == FiltersInitState /\ [][FiltersNext]_vars

\* The return statements of GopherQualityFilter.filter, in the order of the
\* code.
GopherReturns ==
    <<"gopher_no_words", "gopher_short_doc", "gopher_long_doc",
      "gopher_below_avg_threshold", "gopher_above_avg_threshold",
      "gopher_too_many_hashes", "gopher_too_many_ellipsis",
      "gopher_too_many_bullets", "gopher_too_many_end_ellipsis",
      "gopher_too_many_non_alpha", "accept">>

\* The return statements of FineWebQualityFilter.filter, in the order of the
\* code.
FineWebReturns ==
    <<"empty", "line_punct_ratio", "short_line_ratio", "empty_after_newline_removal",
      "char_dup_ratio", "no_words", "list_ratio", "accept">>

\* The position of the return statement that gave the reason.
ReturnIndex(returns, reason) == CHOOSE k \in 1..Len(returns) : returns[k] = reason

\* The denominator d of a division the code evaluates when it has not
\* returned before the statement and the guard around the division holds.
Divides(reached, guard, d) == IF reached /\ guard THEN <<d>> ELSE <<>>

\* The denominators of the divisions one call of GopherQualityFilter.filter
\* evaluates, in order: np.mean over the non-symbol words, the hash and
\* ellipsis ratios over n_words, the bullet and ellipsis line ratios over
\* len(lines), the non-alpha ratio over n_words.
GopherDenominators(text, o) ==
    LET at == ReturnIndex(GopherReturns, GopherFilter(text, o).reason)
        n_words == Len(split_into_words(text))
        n == Len(non_symbol_words(split_into_words(text)))
        n_lines == Len(splitlines(text))
    IN  Divides(at >= 4, n > 0, n)
        \o Divides(at >= 6, Truthy(o.max_symbol_word_ratio) /\ n_words > 0, n_words)
        \o Divides(at >= 7, Truthy(o.max_symbol_word_ratio) /\ n_words > 0, n_words)
        \o Divides(at >= 8, n_lines > 0 /\ Truthy(o.max_bullet_lines_ratio), n_lines)
        \o Divides(at >= 9, n_lines > 0 /\ Truthy(o.max_ellipsis_lines_ratio), n_lines)
        \o Divides(at >= 10, n_words > 0, n_words)

\* The denominators of the divisions one call of FineWebQualityFilter.filter
\* evaluates, in order: the two line ratios over len(lines), the duplicate
\* ratio over len(text_without_newlines), the newline ratio over len(words).
FineWebDenominators(text, o) ==
    LET at == ReturnIndex(FineWebReturns, FineWebFilter(text, o).reason)
        n_lines == Len(FineWebLines(text))
        n_words == Len(split_into_words(text))
    IN  Divides(at >= 2, TRUE, n_lines)
        \o Divides(at >= 3, TRUE, n_lines)
        \o Divides(at >= 5, TRUE, Len(FineWebWithoutNewlines(text)))
        \o Divides(at >= 7, n_words > 0, n_words)

\* The denominators of the divisions the i-th recorded call evaluated.
DenominatorsOf(i) ==
    IF hist[i].stage = "gopher_qual" THEN GopherDenominators(hist[i].before, cfg)
    ELSE IF hist[i].stage = "fineweb" THEN FineWebDenominators(hist[i].before, cfg)
    ELSE <<>>

\* The reasons a filter may give for an empty text.
EmptyTextReasons(stage) ==
    IF stage = "norm" THEN {"empty_after_normalization"}
    ELSE IF stage = "gopher_qual" THEN {"gopher_no_words"}
    ELSE IF stage = "c4" THEN {"too_few_sentences", "empty_after_filtering"}
    ELSE {"empty"}

\* C11: no call of a filter divides by zero, whatever the text and the
\* options (Gopher by the word and line counts, FineWeb by the count of
\* non-blank lines, the length without newlines and the word count), and
\* every call on an empty text returns a reject verdict with the reason of
\* its filter: "empty_after_normalization", "gopher_no_words",
\* "too_few_sentences" or "empty_after_filtering", "empty".
C11_NoZeroDenominator ==
    \A i \in 1..Len(hist) :
        /\ \A k \in 1..Len(DenominatorsOf(i)) : DenominatorsOf(i)[k] # 0
        /\ hist[i].before = <<>> =>
               (~hist[i].ok /\ hist[i].reason \in EmptyTextReasons(hist[i].stage))

\* The FineWeb filter was called on an empty text and rejected it with
\* "empty" before any division.
C11_Witness ==
    /\ Len(hist) = 1
    /\ hist[1].stage = "fineweb"
    /\ hist[1].before = <<>>
    /\ hist[1].reason = "empty"
    /\ DenominatorsOf(1) = <<>>

(***************************************************************************)
(* Further claims about the C4 filter, checked under SpecC4.               *)
(***************************************************************************)

\* The line holds a whitespace-delimited token longer than max_word_length.
HasLongWord(raw, o) ==
    \E j \in 1..Len(split(strip(raw))) : Len(split(strip(raw))[j]) > o.max_word_length

\* The lines of the i-th recorded call that the loop looked at and that hold
\* an over-long token.
LongWordLines(i) ==
    {k \in 1..Len(hist[i].lines) : HasLongWord(HistLines(i)[k], cfg)}

\* C12: with max_word_length enabled, every line the loop comes to that holds
\* a token longer than max_word_length is dropped and counted as
\* "line-filter-too_long_word", once per line (so it is not among the kept
\* lines and adds no sentence); no later check is applied to it, the loop
\* goes on to the next line, and the document is not rejected at that line.
C12_LongWordDropsLine ==
    \A i \in 1..Len(hist) :
        (hist[i].stage = "c4" /\ cfg.max_word_length # -1) =>
            /\ \A k \in LongWordLines(i) :
                   /\ hist[i].lines[k].out = "line-filter-too_long_word"
                   /\ hist[i].lines[k].sentences = 0
                   /\ k < Len(HistLines(i)) => Len(hist[i].lines) > k
            /\ hist[i].reason \in C4DocRejects => Len(hist[i].lines) \notin LongWordLines(i)
            /\ hist[i].reason # "line-filter-too_long_word"
            /\ Len(hist) = 1 =>
                   StatCount(stats, "line-filter-too_long_word") = Cardinality(LongWordLines(i))

\* A first line that holds both an over-long token and the placeholder
\* phrase was dropped for the token, with the placeholder check enabled, and
\* the line after it was kept.
C12_Witness ==
    /\ Len(hist) = 1
    /\ hist[1].stage = "c4"
    /\ cfg.max_word_length # -1 /\ cfg.filter_lorem_ipsum
    /\ Len(hist[1].lines) = 2
    /\ HasLongWord(HistLines(1)[1], cfg)
    /\ HoldsLoremIpsum(HistLines(1)[1])
    /\ hist[1].lines[1].out = "line-filter-too_long_word"
    /\ hist[1].lines[2].out = "line-kept"

(***************************************************************************)
(* Further claims about the Gopher filter, checked under SpecGopher.       *)
(***************************************************************************)

\* Whether each check of the Gopher filter fails on a text, in the order of
\* GopherReturns, each taken by itself: a check whose threshold is None or 0
\* is not enabled and does not fail; the average word length is taken over
\* the non-symbol words when there are any, the line ratios over the lines
\* when there are any.
GopherFails(text, o) ==
    LET words == split_into_words(text)
        nsw == non_symbol_words(words)
        lines == splitlines(text)
        dots == count(text, <<46, 46, 46>>) + count(text, <<8230>>)
    IN  << Len(words) = 0,
           Truthy(o.min_doc_words) /\ Len(nsw) * o.min_doc_words.d < o.min_doc_words.n,
           Truthy(o.max_doc_words) /\ Len(nsw) * o.max_doc_words.d > o.max_doc_words.n,
           /\ Truthy(o.min_avg_word_length) /\ Len(nsw) > 0
           /\ SumLen(nsw) * o.min_avg_word_length.d < o.min_avg_word_length.n * Len(nsw),
           /\ Truthy(o.max_avg_word_length) /\ Len(nsw) > 0
           /\ SumLen(nsw) * o.max_avg_word_length.d > o.max_avg_word_length.n * Len(nsw),
           /\ Truthy(o.max_symbol_word_ratio) /\ Len(words) > 0
           /\ count(text, <<35>>) * o.max_symbol_word_ratio.d
                  > o.max_symbol_word_ratio.n * Len(words),
           /\ Truthy(o.max_symbol_word_ratio) /\ Len(words) > 0
           /\ dots * o.max_symbol_word_ratio.d > o.max_symbol_word_ratio.n * Len(words),
           /\ Truthy(o.max_bullet_lines_ratio) /\ Len(lines) > 0
           /\ Len(SelectSeq(lines, IsBulletLine)) * o.max_bullet_lines_ratio.d
                  > o.max_bullet_lines_ratio.n * Len(lines),
           /\ Truthy(o.max_ellipsis_lines_ratio) /\ Len(lines) > 0
           /\ Len(SelectSeq(lines, IsEllipsisLine)) * o.max_ellipsis_lines_ratio.d
                  > o.max_ellipsis_lines_ratio.n * Len(lines),
           /\ Truthy(o.max_non_alpha_words_ratio) /\ Len(words) > 0
           /\ (Len(words) - Len(SelectSeq(words, IsAlphaWord))) * o.max_non_alpha_words_ratio.d
                  > o.max_non_alpha_words_ratio.n * Len(words) >>

\* The reason of the first failing check, "accept" when no check fails.
FirstFailing(fails) ==
    IF \E k \in 1..Len(fails) : fails[k]
    THEN GopherReturns[CHOOSE k \in 1..Len(fails) :
                           fails[k] /\ \A j \in 1..(k - 1) : ~fails[j]]
    ELSE "accept"

\* C13: every call of GopherQualityFilter.filter returns one verdict; a
\* rejection carries the reason of the first failing enabled check in the
\* order gopher_no_words, gopher_short_doc, gopher_long_doc,
\* gopher_below_avg_threshold, gopher_above_avg_threshold,
\* gopher_too_many_hashes, gopher_too_many_ellipsis, gopher_too_many_bullets,
\* gopher_too_many_end_ellipsis, gopher_too_many_non_alpha; the call accepts
\* exactly when no enabled check fails.
C13_GopherFirstFailingCheck ==
    /\ Len(hist) <= 1
    /\ \A i \in 1..Len(hist) :
           hist[i].stage = "gopher_qual" =>
               /\ hist[i].reason = FirstFailing(GopherFails(hist[i].before, cfg))
               /\ hist[i].ok <=> \A k \in 1..10 : ~GopherFails(hist[i].before, cfg)[k]
               /\ hist[i].ok <=> hist[i].reason = "accept"
               /\ verdict = [ok |-> hist[i].ok, reason |-> hist[i].reason]

\* A text on which both the hash ratio and the ellipsis ratio are too high
\* was rejected for the hashes, the earlier of the two checks.
C13_Witness ==
    /\ Len(hist) = 1
    /\ hist[1].stage = "gopher_qual"
    /\ GopherFails(hist[1].before, cfg)[6]
    /\ GopherFails(hist[1].before, cfg)[7]
    /\ hist[1].reason = "gopher_too_many_hashes"

\* The sentences the kept lines add up to: those of each kept line in line
\* mode, one for each kept line in sentence mode.
RECURSIVE KeptSentences(_, _)
KeptSentences(kept, o) ==
    IF kept = <<>> THEN 0
    ELSE (IF o.split_paragraph THEN Len(split_into_sentences(Head(kept))) ELSE 1)
         + KeptSentences(Tail(kept), o)

\* The kept lines in their order, joined by newline in line mode and by
\* space in sentence mode, and trimmed.
KeptText(kept, o) == strip(join(IF o.split_paragraph THEN <<10>> ELSE <<32>>, kept))

\* No line of the i-th recorded call rejected the document.
NoLineRejected(i) ==
    \A k \in 1..Len(hist[i].lines) : hist[i].lines[k].out \notin C4DocRejects

\* C14: when no line rejects the document, the C4 filter rejects with
\* "too_few_sentences" exactly when min_num_sentences is enabled and the
\* sentences of the kept lines are fewer; otherwise it sets doc.text to the
\* kept lines in their order, joined by newline (line mode) or space
\* (sentence mode) and trimmed, rejects with "empty_after_filtering" exactly
\* when that text is empty, and accepts otherwise.  The sentence test comes
\* first: with min_num_sentences >= 1 a document whose lines are all dropped
\* is rejected with "too_few_sentences".
C14_DocumentLevelFinish ==
    \A i \in 1..Len(hist) :
        (hist[i].stage = "c4" /\ NoLineRejected(i)) =>
            LET kept == C4KeptLines(hist[i].lines)
            IN  /\ Len(hist[i].lines) = Len(HistLines(i))
                /\ hist[i].reason = "too_few_sentences"
                       <=> (/\ cfg.min_num_sentences # -1
                            /\ KeptSentences(kept, cfg) < cfg.min_num_sentences)
                /\ hist[i].reason # "too_few_sentences" =>
                       /\ hist[i].text = KeptText(kept, cfg)
                       /\ hist[i].reason = "empty_after_filtering" <=> KeptText(kept, cfg) = <<>>
                       /\ hist[i].ok <=> KeptText(kept, cfg) # <<>>
                /\ (cfg.min_num_sentences >= 1 /\ kept = <<>>) =>
                       hist[i].reason = "too_few_sentences"

\* With min_num_sentences >= 1, a document of two lines, both dropped by
\* line checks, was rejected with "too_few_sentences".
C14_Witness ==
    /\ Len(hist) = 1
    /\ hist[1].stage = "c4"
    /\ cfg.min_num_sentences >= 1
    /\ Len(hist[1].lines) = 2
    /\ NoLineRejected(1)
    /\ C4KeptLines(hist[1].lines) = <<>>
    /\ hist[1].reason = "too_few_sentences"

(***************************************************************************)
(* Further claims about the FineWeb filter, checked under SpecFineWeb.     *)
(***************************************************************************)

\* How many non-blank lines of the text end in a stop character.
StopLineCount(text, o) ==
    Cardinality({k \in 1..Len(FineWebLines(text)) :
                    \E st \in FineWebStopChars(o) : endswith(FineWebLines(text)[k], st)})

\* The ratio of lines ending in a stop character lies below line_punct_thr
\* and is not an exempted zero.
BelowLinePunct(text, o) ==
    /\ StopLineCount(text, o) * o.line_punct_thr.d
           < o.line_punct_thr.n * Len(FineWebLines(text))
    /\ ~(StopLineCount(text, o) = 0 /\ o.line_punct_exclude_zero)

\* C15: for a document with at least one non-blank line, with r the number
\* of non-blank lines ending in a stop character over the number of
\* non-blank lines, the FineWeb filter rejects with "line_punct_ratio"
\* exactly when r < line_punct_thr and not (r = 0 and
\* line_punct_exclude_zero); such a document gets no later reason.
C15_LinePunctRatio ==
    \A i \in 1..Len(hist) :
        (hist[i].stage = "fineweb" /\ Len(FineWebLines(hist[i].before)) > 0) =>
            /\ hist[i].reason = "line_punct_ratio" <=> BelowLinePunct(hist[i].before, cfg)
            /\ BelowLinePunct(hist[i].before, cfg) =>
                   (~hist[i].ok /\ hist[i].reason \notin
                        {"short_line_ratio", "char_dup_ratio", "list_ratio", "no_words", "accept"})

\* With line_punct_exclude_zero set and a threshold above zero, a document
\* none of whose lines ends in a stop character passed the line-punctuation
\* check and was rejected for its short lines.
C15_Witness ==
    /\ Len(hist) = 1
    /\ hist[1].stage = "fineweb"
    /\ cfg.line_punct_exclude_zero /\ cfg.line_punct_thr.n > 0
    /\ Len(FineWebLines(hist[1].before)) = 2
    /\ StopLineCount(hist[1].before, cfg) = 0
    /\ hist[1].reason = "short_line_ratio"

(***************************************************************************)
(* The helpers/ variant of GopherQualityFilter, run next to the filters/   *)
(* variant on the same document.                                           *)
(***************************************************************************)

\* A variant whose test also rejects a document exactly at the threshold.
GopherBelowAlphaThreshold_Inclusive(words, o) ==
    /\ Truthy(o.max_non_alpha_words_ratio)
    /\ ~RatioAbove(CountIf(words, IsAlphaWord), Len(words), o.max_non_alpha_words_ratio)

\* helpers/ variant:
\*     if self.max_non_alpha_words_ratio and sum([...]) / n_words < ...
GopherBelowAlphaThreshold(words, o) ==
    /\ Truthy(o.max_non_alpha_words_ratio)
    /\ RatioBelow(CountIf(words, IsAlphaWord), Len(words), o.max_non_alpha_words_ratio)

\* helpers/ variant: text_normalized, the text the words are taken from.
GopherHelpersNormalized(text, o) == IF o.allow_mixed_script THEN lower(text) ELSE text

\* helpers/ variant of GopherQualityFilter.filter(doc): the verdict.
GopherHelpersFilter(text, o) ==
    LET words == split_into_words(GopherHelpersNormalized(text, o))
        n_words == Len(words)
        nsw == non_symbol_words(words)
        n == Len(nsw)
        lines == splitlines(text)
    IN  IF n_words = 0 THEN Reject("gopher_no_words")
        ELSE IF GopherShortDoc(n, o) THEN Reject("gopher_short_doc")
        ELSE IF GopherLongDoc(n, o) THEN Reject("gopher_long_doc")
        ELSE IF GopherBelowAvg(SumLen(nsw), n, o) THEN Reject("gopher_below_avg_threshold")
        ELSE IF GopherAboveAvg(SumLen(nsw), n, o) THEN Reject("gopher_above_avg_threshold")
        ELSE IF GopherTooManyHashes(text, n_words, o) THEN Reject("gopher_too_many_hashes")
        ELSE IF GopherTooManyEllipsis(text, n_words, o) THEN Reject("gopher_too_many_ellipsis")
        ELSE IF GopherTooManyBullets(lines, o) THEN Reject("gopher_too_many_bullets")
        ELSE IF GopherTooManyEndEllipsis(lines, o) THEN Reject("gopher_too_many_end_ellipsis")
        ELSE IF GopherBelowAlphaThreshold(words, o) THEN Reject("gopher_below_alpha_threshold")
        ELSE Accept

\* The thresholds m of the filters/ variant: 0, fractions that documents of
\* one to four words fall on, below and above, and 1.
AlphaThresholds ==
    {Num(0, 1), Num(1, 4), Num(1, 3), Num(1, 2), Num(2, 3), Num(3, 4), Num(8, 10), Num(1, 1)}

\* t = 1 - m
OneMinus(m) == Num(m.d - m.n, m.d)

\* The other checks: all disabled, or the defaults without a minimum length.
AlphaBaseOptions ==
    { [min_doc_words |-> None, max_doc_words |-> None,
       min_avg_word_length |-> None, max_avg_word_length |-> None,
       max_symbol_word_ratio |-> None, max_bullet_lines_ratio |-> None,
       max_ellipsis_lines_ratio |-> None, max_non_alpha_words_ratio |-> None],
      [GopherDefaults EXCEPT !.min_doc_words = None] }

\* The options of the helpers/ variant that match options o of the
\* filters/ variant: the same thresholds, with t = 1 - m.
HelpersOptions(o, mixed) ==
    [min_doc_words |-> o.min_doc_words, max_doc_words |-> o.max_doc_words,
     min_avg_word_length |-> o.min_avg_word_length,
     max_avg_word_length |-> o.max_avg_word_length,
     max_symbol_word_ratio |-> o.max_symbol_word_ratio,
     max_bullet_lines_ratio |-> o.max_bullet_lines_ratio,
     max_ellipsis_lines_ratio |-> o.max_ellipsis_lines_ratio,
     max_non_alpha_words_ratio |-> OneMinus(o.max_non_alpha_words_ratio),
     allow_mixed_script |-> mixed]

\* The tokens of the word lists: "a", "B", "1", "#".
AlphaTokens == {<<97>>, <<66>>, <<49>>, <<35>>}

\* The documents of exactly k tokens separated by spaces.
RECURSIVE AlphaTextsOf(_)
AlphaTextsOf(k) ==
    IF k = 1 THEN AlphaTokens
    ELSE {t \o <<32>> \o w : t \in AlphaTextsOf(k - 1), w \in AlphaTokens}

MaxAlphaWords == 4

AlphaTexts == UNION {AlphaTextsOf(k) : k \in 1..MaxAlphaWords}

AlphaInitState ==
    /\ pc = "alpha_ready"
    /\ \E o \in AlphaBaseOptions, m \in AlphaThresholds, mixed \in BOOLEAN :
           cfg = [filters |-> [o EXCEPT !.max_non_alpha_words_ratio = m],
                  helpers |-> HelpersOptions([o EXCEPT !.max_non_alpha_words_ratio = m], mixed)]
    /\ \E t \in AlphaTexts : doc = [id |-> 1, text |-> t, metadata |-> <<>>]
    /\ input = <<doc>>
    /\ verdict = NoVerdict
    /\ stats = <<>>
    /\ hist = <<>>
    /\ sinks = NoSinks
    /\ output = <<>>

\* One call of the filters/ variant's filter(doc).
AlphaFiltersRun ==
    /\ pc = "alpha_ready"
    /\ pc' = "alpha_helpers"
    /\ verdict' = GopherFilter(doc.text, cfg.filters)
    /\ hist' = Append(hist, HistEntry(doc, "gopher_qual", verdict', doc, <<>>))
    /\ UNCHANGED <<cfg, doc, stats, input, sinks, output>>

\* One call of the helpers/ variant's filter(doc), on the same document.
AlphaHelpersRun ==
    /\ pc = "alpha_helpers"
    /\ pc' = "alpha_done"
    /\ verdict' = GopherHelpersFilter(doc.text, cfg.helpers)
    /\ hist' = Append(hist, HistEntry(doc, "gopher_helpers", verdict', doc, <<>>))
    /\ UNCHANGED <<cfg, doc, stats, input, sinks, output>>

AlphaNext == AlphaFiltersRun \/ AlphaHelpersRun

SpecAlpha == AlphaInitState /\ [][AlphaNext]_vars

\* Both variants ran on the document.
BothVariantsRan ==
    /\ Len(hist) = 2
    /\ hist[1].stage = "gopher_qual"
    /\ hist[2].stage = "gopher_helpers"

\* The number of words of a word list that count as alphabetic.
AlphaWordCount(words) == Len(SelectSeq(words, IsAlphaWord))

SinkCount(d, stage) ==
    Cardinality({j \in 1..Len(sinks[stage]) : sinks[stage][j].id = d})

\* C17: a document the Normalizer rejected is in the Normalizer's rejection
\* sink exactly once, counting the write inside filter() and the write of
\* BaseFilter.run for every rejected document.
C17_NormalizerSinkOnce ==
    \A d \in DocIds : RejectedBy(d, "norm") => SinkCount(d, "norm") = 1

\* The returns of FineWebQualityFilter.filter that lie after the test of the
\* text without newlines.
FineWebPastNewlineGuard == {"char_dup_ratio", "no_words", "list_ratio", "accept"}

\* C18: no call of FineWebQualityFilter.filter rejects with
\* "empty_after_newline_removal": whenever the document has a non-blank
\* line (the call gets past the "empty" check), the text with its newlines
\* removed has at least one character, and every call that gets past the
\* short-line check leaves by one of the later returns.
C18_NewlineGuardUnreachable ==
    \A i \in 1..Len(hist) :
        hist[i].stage = "fineweb" =>
            /\ hist[i].reason # "empty_after_newline_removal"
            /\ Len(FineWebLines(hist[i].before)) > 0
                   => Len(FineWebWithoutNewlines(hist[i].before)) > 0
            /\ hist[i].reason \notin {"empty", "line_punct_ratio", "short_line_ratio"}
                   => hist[i].reason \in FineWebPastNewlineGuard

\* A document with a newline and a blank line got past the "empty", the
\* line-punctuation and the short-line checks, so the guard was evaluated.
C18_Witness ==
    /\ Len(hist) = 1
    /\ hist[1].stage = "fineweb"
    /\ hist[1].reason \in FineWebPastNewlineGuard
    /\ count(hist[1].before, <<10>>) > 0
    /\ Len(FineWebLines(hist[1].before)) < Len(splitNL(hist[1].before))

\* A step that is one call of the named filter's filter().
FilterCall(stage) ==
    /\ Len(hist') = Len(hist) + 1
    /\ hist'[Len(hist')].stage = stage

\* The frame of one step: what a call of filter() leaves alone.
FrameOfCall ==
    /\ cfg' = cfg
    /\ (FilterCall("gopher_qual") \/ FilterCall("fineweb")) =>
           /\ doc'.text = doc.text
           /\ doc'.metadata = doc.metadata
    /\ FilterCall("c4") =>
           /\ verdict'.reason \in {"lorem_ipsum", "curly_bracket", "too_few_sentences"}
                  => doc'.text = doc.text
           /\ doc'.text # doc.text
                  => verdict'.reason \in {"accept", "empty_after_filtering"}
           /\ verdict'.reason \in {"accept", "empty_after_filtering"}
                  => doc'.text = C4Reassemble(C4KeptLines(hist'[Len(hist')].lines), cfg)

\* C19: a call of GopherQualityFilter.filter or FineWebQualityFilter.filter
\* leaves doc.text and doc.metadata as they were, whatever the verdict; a
\* call of C4QualityFilter.filter leaves doc.text as it was when it rejects
\* with "lorem_ipsum", "curly_bracket" or "too_few_sentences", and changes
\* it only on accept or on "empty_after_filtering", where doc.text becomes
\* the kept lines joined; no step of any filter changes the options the
\* filter was constructed with.
C19_FrameConditions == [][FrameOfCall]_vars

\* C4QualityFilter.filter rejected a document for too few sentences and left
\* its text as it was, although the kept lines joined are another text.
C19_Witness ==
    /\ Len(hist) = 1
    /\ hist[1].stage = "c4"
    /\ hist[1].reason = "too_few_sentences"
    /\ hist[1].text = hist[1].before
    /\ doc.text = hist[1].before
    /\ C4Reassemble(C4KeptLines(hist[1].lines), cfg) # hist[1].before

====
